---- MODULE Spec2Model ----
(***************************************************************************)
(* ExplainIt! browser extension: the multi-provider dispatch and           *)
(* resilience layer of the background service worker                       *)
(* (src/extension/background.js, lines 1-316) and the settings handling of *)
(* the toolbar popup (src/extension/popup.js, lines 629-1234) and of the   *)
(* inline popup (src/extension/inline-popup.js, lines 975-2093).           *)
(*                                                                         *)
(* JavaScript strings are TLA+ strings; String.prototype.includes is a     *)
(* real substring search.  A JavaScript object is a record (a function     *)
(* whose DOMAIN is the set of its own property names), so that a property  *)
(* the code never sets is absent from the DOMAIN.                          *)
(***************************************************************************)
EXTENDS Integers, Sequences, FiniteSets, TLC

VARIABLES
    syncStore,     \* chrome.storage.sync : the cross-device store
    localStore,    \* chrome.storage.local: the device-local store
    syncWrites,    \* payloads the last save handed to chrome.storage.sync.set
    localWrites,   \* payloads the last save handed to chrome.storage.local.set
    req,           \* the explanation request the service worker is serving
    httpLog,       \* HTTP requests the current request handed to fetch()
    lastOutcome,   \* how the last fetch() of the current request settled
    thrown,        \* what the dispatcher threw last (<<>> when it returned)
    response,      \* argument of sendResponse for the current request
    popupView,     \* what popup.js fetchExplanation made of the response
    popupFetch,    \* the popup's fetchExplanation call: idle, awaiting, torndown
    other,         \* a second explanation request, served at the same time
    popup,         \* toolbar popup: settings, draftApiKeys and form controls
    inline,        \* inline popup: currentSettings, draftApiKeys, controls
    saveResult,    \* result of the last saveSettings / saveInlineSettings
    nOps,          \* settings operations performed so far
    call,          \* the last call of a lookup function, with what it yielded
    page,          \* a web page: the inline popups created on it, their requests
    texts,         \* service worker: textStorage, the clock, answers about texts
    proxy          \* a run of the retry loop that calls the backend proxy

vars == << syncStore, localStore, syncWrites, localWrites, req, httpLog,
           lastOutcome, thrown, response, popupView, popupFetch,
           other, popup, inline, saveResult, nOps, call, page, texts, proxy >>

storeVars    == << syncStore, localStore, syncWrites, localWrites >>
requestVars  == << req, httpLog, lastOutcome, thrown, response, popupView,
                   popupFetch, other >>
settingsVars == << popup, inline, saveResult, nOps >>
lookupVars   == << call >>
pageVars     == << page >>
workerVars   == << texts, proxy >>

(***************************************************************************)
(* Bounds of the model.                                                    *)
(***************************************************************************)
MaxSaves == 1    \* saveSettings calls while explanation requests are served
MaxOps   == 4    \* settings operations per behaviour
MaxPopups   == 3 \* createInlinePopup calls on a page
MaxRequests == 3 \* explanation requests sent from a page
MaxStores   == 2 \* SELECTED_TEXT messages
MaxMinutes  == 7 \* minutes the clock of the service worker runs

(***************************************************************************)
(* JavaScript helpers.                                                     *)
(***************************************************************************)
\* s.includes(t)
Includes(s, t) ==
    \E i \in 1..(Len(s) - Len(t) + 1) : SubSeq(s, i, i + Len(t) - 1) = t

UpperCase == "ABCDEFGHIJKLMNOPQRSTUVWXYZ"
LowerCase == "abcdefghijklmnopqrstuvwxyz"

LowerChar(c) ==
    IF \E i \in 1..Len(UpperCase) : SubSeq(UpperCase, i, i) = c
    THEN LET i == CHOOSE j \in 1..Len(UpperCase) : SubSeq(UpperCase, j, j) = c
         IN  SubSeq(LowerCase, i, i)
    ELSE c

\* s.toLowerCase()
RECURSIVE ToLowerCase(_)
ToLowerCase(s) ==
    IF Len(s) = 0 THEN ""
    ELSE LowerChar(SubSeq(s, 1, 1)) \o ToLowerCase(SubSeq(s, 2, Len(s)))

\* obj?.[f] on an optional value: <<>> is undefined, <<v>> is the value v
Opt(o, f) ==
    IF Len(o) = 0 THEN <<>>
    ELSE IF f \in DOMAIN o[1] THEN << o[1][f] >> ELSE <<>>

\* !v for an optional string: undefined and '' are falsy
Falsy(o) == Len(o) = 0 \/ o[1] = ""

\* obj[key] || ''
KeyOf(obj, key) == IF key \in DOMAIN obj THEN obj[key] ELSE ""

EmptyObject == <<>>

(***************************************************************************)
(* background.js: provider table and constants.                            *)
(***************************************************************************)
ProviderIds == {"openai", "anthropic", "gemini", "groq"}

PROVIDER_CONFIGS ==
    [ openai    |-> [ url   |-> "https://api.openai.com/v1/chat/completions",
                      model |-> "gpt-4o-mini",
                      type  |-> "openai" ],
      anthropic |-> [ url   |-> "https://api.anthropic.com/v1/messages",
                      model |-> "claude-3-5-haiku-20241022",
                      type  |-> "anthropic" ],
      gemini    |-> [ url   |-> "https://generativelanguage.googleapis.com/v1beta/models/gemini-1.5-flash:generateContent",
                      model |-> "gemini-1.5-flash",
                      type  |-> "gemini" ],
      groq      |-> [ url   |-> "https://api.groq.com/openai/v1/chat/completions",
                      model |-> "llama-3.3-70b-versatile",
                      type  |-> "openai" ] ]

TIMEOUT_MS     == 30000
RETRY_ATTEMPTS == 2
RETRY_DELAY_MS == 1000

\* a power that does not grow
PowFlat(n) == 1

\* Math.pow(2, n)
RECURSIVE Pow2(_)
Pow2(n) == IF n = 0 THEN 1 ELSE 2 * Pow2(n - 1)

(***************************************************************************)
(* background.js: prompt templates and buildPrompt.  The ru templates are  *)
(* Cyrillic in the source; they are transliterated here, keeping the       *)
(* placeholder and the line structure.                                     *)
(***************************************************************************)
PROMPTS ==
    [ simple |->
        [ en |-> "Explain the following text in simple words that any adult can understand. Keep it concise (2-4 sentences). Do not use jargon.\n\nText:\n{text}",
          ru |-> "Ob'yasni sleduyushchiy tekst prostymi slovami, ponyatnymi lyubomu vzroslomu cheloveku. Bud' kratok (2-4 predlozheniya). Ne ispol'zuy zhargon.\n\nTekst:\n{text}" ],
      kid |->
        [ en |-> "Explain the following text as if talking to a 5-year-old child. Use very simple words, short sentences, and a fun comparison if possible.\n\nText:\n{text}",
          ru |-> "Ob'yasni sleduyushchiy tekst tak, kak budto ty razgovarivaesh' s 5-letnim rebyonkom. Ispol'zuy ochen' prostye slova, korotkie predlozheniya i interesnoe sravnenie, esli vozmozhno.\n\nTekst:\n{text}" ],
      expert |->
        [ en |-> "Provide a precise, technical explanation of the following text for a professional audience. Use appropriate terminology and cover key nuances.\n\nText:\n{text}",
          ru |-> "Predostav' tochnoe tekhnicheskoe ob'yasnenie sleduyushchego teksta dlya professional'noy auditorii. Ispol'zuy sootvetstvuyushchuyu terminologiyu i raskroy klyuchevye nyuansy.\n\nTekst:\n{text}" ] ]

\* index of the first occurrence of t in s, 0 when there is none
IndexOf(s, t) ==
    IF Includes(s, t)
    THEN CHOOSE i \in 1..(Len(s) - Len(t) + 1) :
            /\ SubSeq(s, i, i + Len(t) - 1) = t
            /\ \A j \in 1..(i - 1) : SubSeq(s, j, j + Len(t) - 1) # t
    ELSE 0

\* the replacement string of String.prototype.replace with its $ patterns
RECURSIVE ExpandReplacement(_, _, _, _)
ExpandReplacement(r, matched, before, after) ==
    IF Len(r) = 0 THEN ""
    ELSE IF Len(r) >= 2 /\ SubSeq(r, 1, 1) = "$"
         THEN LET c    == SubSeq(r, 2, 2)
                  rest == SubSeq(r, 3, Len(r))
              IN  IF c = "$" THEN "$" \o ExpandReplacement(rest, matched, before, after)
                  ELSE IF c = "&" THEN matched \o ExpandReplacement(rest, matched, before, after)
                  ELSE IF c = "`" THEN before \o ExpandReplacement(rest, matched, before, after)
                  ELSE IF c = "'" THEN after \o ExpandReplacement(rest, matched, before, after)
                  ELSE "$" \o ExpandReplacement(SubSeq(r, 2, Len(r)), matched, before, after)
         ELSE SubSeq(r, 1, 1) \o ExpandReplacement(SubSeq(r, 2, Len(r)), matched, before, after)

\* s.replace(pattern, replacement) for a string pattern: the first match only
Replace(s, pattern, replacement) ==
    LET i == IndexOf(s, pattern)
    IN  IF i = 0 THEN s
        ELSE LET before == SubSeq(s, 1, i - 1)
                 after  == SubSeq(s, i + Len(pattern), Len(s))
             IN  before \o ExpandReplacement(replacement, pattern, before, after) \o after

\* property names every object literal inherits from Object.prototype (and
\* every function from Function.prototype): obj[key] yields a function or an
\* object for them, a truthy value that is no template and no table entry
ObjectPrototypeKeys ==
    { "constructor", "toString", "toLocaleString", "valueOf", "hasOwnProperty",
      "isPrototypeOf", "propertyIsEnumerable", "__proto__" }

\* const tonePrompts = PROMPTS[tone] || PROMPTS.simple;
\* const template = tonePrompts[language] || tonePrompts.en;
\* << template >> when that is a string, << >> when it is undefined or an
\* inherited function, on which template.replace(...) throws a TypeError
promptTemplate(tone, language) ==
    IF tone \in ObjectPrototypeKeys
    THEN <<>>
    ELSE LET tonePrompts == IF tone \in DOMAIN PROMPTS THEN PROMPTS[tone]
                                                       ELSE PROMPTS.simple
         IN  IF language \in ObjectPrototypeKeys THEN <<>>
             ELSE IF language \in DOMAIN tonePrompts THEN << tonePrompts[language] >>
             ELSE << tonePrompts.en >>

\* return template.replace('{text}', text), where the template is a string
buildPrompt(text, tone, language) ==
    Replace(promptTemplate(tone, language)[1], "{text}", text)

\* config.js getPrompt(tone, language, text): the same three lines
getPrompt(tone, language, text) ==
    Replace(promptTemplate(tone, language)[1], "{text}", text)

(***************************************************************************)
(* background.js: fetchWithTimeout.  A fetch settles in one of three ways: *)
(* with a Response, with a rejection of the network stack, or, when the    *)
(* TIMEOUT_MS timer fires first and aborts it, with an AbortError.         *)
(***************************************************************************)
IsAbort(outcome) == outcome.kind = "reject" /\ outcome.error.name = "AbortError"

fetchWithTimeout(outcome) ==
    IF outcome.kind = "response"
    THEN [ returned |-> TRUE, value |-> outcome.response ]
    ELSE IF outcome.error.name = "AbortError"
         THEN [ returned |-> FALSE,
                error |-> [ name |-> "Error", message |-> "Request timed out" ] ]
         ELSE [ returned |-> FALSE, error |-> outcome.error ]

(***************************************************************************)
(* background.js: the three dispatchers.  Each is split into the request   *)
(* it hands to fetch and what it makes of the way the fetch settled.       *)
(***************************************************************************)
\* const errorData = await response.json().catch(() => ({}))
ErrorData(resp) == IF resp.jsonOk THEN resp.body ELSE EmptyObject

\* errorData.error?.message || `HTTP ${response.status}`
HttpErrorMessage(resp) ==
    LET m == Opt(Opt(<< ErrorData(resp) >>, "error"), "message")
    IN  IF Falsy(m) THEN "HTTP " \o ToString(resp.status) ELSE m[1]

\* throw new Error(errorData.error?.message || `HTTP ${response.status}`)
HttpError(resp) == [ name |-> "Error", message |-> HttpErrorMessage(resp) ]

EmptyResponseError == [ name |-> "Error", message |-> "Empty response from provider" ]

\* what `await response.json()` rejects with when the body is not JSON
JsonSyntaxError ==
    [ name |-> "SyntaxError", message |-> "Unexpected token < in JSON at position 0" ]

\* a tail that returns whatever the extraction path yields
ExtractedUnchecked(result) ==
    [ returned |-> TRUE, value |-> IF result = <<>> THEN "" ELSE result[1] ]

\* the common tail of the dispatchers, for the extracted text `result`
Extracted(result) ==
    IF Falsy(result)
    THEN [ returned |-> FALSE, error |-> EmptyResponseError ]
    ELSE [ returned |-> TRUE, value |-> result[1] ]

Dispatched(outcome, result) ==
    LET f == fetchWithTimeout(outcome)
    IN  IF ~f.returned THEN f
        ELSE IF ~f.value.ok
             THEN [ returned |-> FALSE, error |-> HttpError(f.value) ]
             ELSE IF ~f.value.jsonOk
                  THEN [ returned |-> FALSE, error |-> JsonSyntaxError ]
                  ELSE result

callOpenAICompatibleRequest(url, apiKey, model, prompt) ==
    [ url     |-> url,
      method  |-> "POST",
      headers |-> [ ContentType   |-> "application/json",
                    Authorization |-> "Bearer " \o apiKey ],
      body    |-> [ model       |-> model,
                    messages    |-> << [ role |-> "user", content |-> prompt ] >>,
                    max_tokens  |-> 500 ] ]

\* data.choices?.[0]?.message?.content
callOpenAICompatible(outcome) ==
    Dispatched(outcome,
        Extracted(Opt(Opt(Opt(Opt(<< outcome.response.body >>, "choices"), 1),
                          "message"), "content")))

\* a dispatcher that sends the key of the Anthropic family as a bearer token
callAnthropicRequestBearer(apiKey, model, prompt) ==
    [ url     |-> "https://api.anthropic.com/v1/messages",
      method  |-> "POST",
      headers |-> [ ContentType      |-> "application/json",
                    Authorization    |-> "Bearer " \o apiKey,
                    anthropicVersion |-> "2023-06-01" ],
      body    |-> [ model      |-> model,
                    max_tokens |-> 500,
                    messages   |-> << [ role |-> "user", content |-> prompt ] >> ] ]

callAnthropicRequest(apiKey, model, prompt) ==
    [ url     |-> "https://api.anthropic.com/v1/messages",
      method  |-> "POST",
      headers |-> [ ContentType      |-> "application/json",
                    xApiKey          |-> apiKey,
                    anthropicVersion |-> "2023-06-01" ],
      body    |-> [ model      |-> model,
                    max_tokens |-> 500,
                    messages   |-> << [ role |-> "user", content |-> prompt ] >> ] ]

\* data.content?.[0]?.text
callAnthropic(outcome) ==
    Dispatched(outcome,
        Extracted(Opt(Opt(Opt(<< outcome.response.body >>, "content"), 1), "text")))

callGeminiRequest(apiKey, model, prompt) ==
    [ url     |-> "https://generativelanguage.googleapis.com/v1beta/models/"
                    \o model \o ":generateContent?key=" \o apiKey,
      method  |-> "POST",
      headers |-> [ ContentType |-> "application/json" ],
      body    |-> [ contents |-> << [ parts |-> << [ text |-> prompt ] >> ] >>,
                    generationConfig |-> [ maxOutputTokens |-> 500 ] ] ]

\* data.candidates?.[0]?.content?.parts?.[0]?.text
callGemini(outcome) ==
    Dispatched(outcome,
        Extracted(Opt(Opt(Opt(Opt(Opt(Opt(<< outcome.response.body >>, "candidates"), 1),
                                  "content"), "parts"), 1), "text")))

(***************************************************************************)
(* background.js: callProvider, the router.                                *)
(***************************************************************************)
\* const providerCfg = PROVIDER_CONFIGS[providerId] || PROVIDER_CONFIGS.openai;
\* for an inherited property name the lookup yields a function, which is
\* truthy and has no url, model or type: they read as undefined
ProviderCfg(providerId) ==
    IF providerId \in DOMAIN PROVIDER_CONFIGS THEN PROVIDER_CONFIGS[providerId]
    ELSE IF providerId \in ObjectPrototypeKeys
         THEN [ url |-> "undefined", model |-> "undefined", type |-> "undefined" ]
         ELSE PROVIDER_CONFIGS.openai

\* config.js PROVIDERS: what the settings forms show of a provider
PROVIDERS ==
    [ openai    |-> [ name |-> "OpenAI", label |-> "GPT-4o mini",
                      url |-> "https://api.openai.com/v1/chat/completions",
                      model |-> "gpt-4o-mini", keyPrefix |-> "sk-" ],
      anthropic |-> [ name |-> "Anthropic", label |-> "Claude Haiku",
                      url |-> "https://api.anthropic.com/v1/messages",
                      model |-> "claude-3-5-haiku-20241022", keyPrefix |-> "sk-ant-" ],
      gemini    |-> [ name |-> "Google Gemini", label |-> "Gemini 1.5 Flash",
                      url |-> "https://generativelanguage.googleapis.com/v1beta/models/gemini-1.5-flash:generateContent",
                      model |-> "gemini-1.5-flash", keyPrefix |-> "AIza" ],
      groq      |-> [ name |-> "Groq", label |-> "Llama 3.3 70B",
                      url |-> "https://api.groq.com/openai/v1/chat/completions",
                      model |-> "llama-3.3-70b-versatile", keyPrefix |-> "gsk_" ] ]

\* config.js getProvider: return PROVIDERS[providerId] || PROVIDERS.openai;
\* for an inherited property name that is the inherited function itself
getProvider(providerId) ==
    IF providerId \in DOMAIN PROVIDERS THEN PROVIDERS[providerId]
    ELSE IF providerId \in ObjectPrototypeKeys
         THEN [ inherited |-> providerId ]
         ELSE PROVIDERS.openai

callProviderRequest(providerId, apiKey, text, tone, language) ==
    LET providerCfg == ProviderCfg(providerId)
        prompt      == buildPrompt(text, tone, language)
    IN  CASE providerCfg.type = "anthropic" ->
               callAnthropicRequest(apiKey, providerCfg.model, prompt)
          [] providerCfg.type = "gemini" ->
               callGeminiRequest(apiKey, providerCfg.model, prompt)
          [] OTHER ->
               callOpenAICompatibleRequest(providerCfg.url, apiKey, providerCfg.model, prompt)

callProvider(providerId, outcome) ==
    LET providerCfg == ProviderCfg(providerId)
    IN  CASE providerCfg.type = "anthropic" -> callAnthropic(outcome)
          [] providerCfg.type = "gemini"    -> callGemini(outcome)
          [] OTHER                          -> callOpenAICompatible(outcome)

(***************************************************************************)
(* The ways a fetch can settle.  Response bodies follow the three provider *)
(* families; error bodies carry the provider's message, or none.           *)
(***************************************************************************)
Texts == { "hello" }

\* the (tone, language) pairs a FETCH_EXPLANATION message carries: pairs of
\* the enumerations, for which buildPrompt returns
MessageSettings == { << "simple", "en" >>, << "expert", "ru" >> }

ProviderMessages ==
    { "Incorrect API key provided",
      "Incorrect API key provided: sk-a***4291",
      "Internal Server Error",
      "Rate limit exceeded" }

ErrorStatuses == { 400, 401, 429, 500, 503 }

ErrorBodies ==
    { [ error |-> [ message |-> m ] ] : m \in ProviderMessages } \cup { EmptyObject }

\* success bodies that carry a text at the family's extraction path
TextBodies(type) ==
    CASE type = "anthropic" ->
           { [ content |-> << [ text |-> "Anthropic explanation" ] >> ] }
      [] type = "gemini" ->
           { [ candidates |-> << [ content |-> [ parts |-> << [ text |-> "Gemini explanation" ] >> ] ] >> ] }
      [] OTHER ->
           { [ choices |-> << [ message |-> [ content |-> "Great explanation" ] ] >> ] }

\* success bodies that carry none: an empty array, a missing field
EmptyBodies(type) ==
    CASE type = "anthropic" ->
           { [ content |-> <<>> ],
             [ content |-> << [ type |-> "text" ] >> ] }
      [] type = "gemini" ->
           { [ candidates |-> <<>> ],
             [ candidates |-> << [ content |-> [ parts |-> <<>> ] ] >> ] }
      [] OTHER ->
           { [ choices |-> <<>> ],
             [ choices |-> << [ message |-> EmptyObject ] >> ] }

OkBodies(type) == TextBodies(type) \cup EmptyBodies(type)

NetworkErrors ==
    { [ name |-> "TypeError", message |-> "Failed to fetch" ],
      [ name |-> "Error",     message |-> "network error" ] }

AbortError == [ name |-> "AbortError", message |-> "The user aborted a request." ]

FetchOutcomes(type) ==
    { [ kind |-> "response",
        response |-> [ ok |-> TRUE, status |-> 200, jsonOk |-> TRUE, body |-> b ] ] :
          b \in OkBodies(type) }
    \cup
    { [ kind |-> "response",
        response |-> [ ok |-> FALSE, status |-> st, jsonOk |-> TRUE, body |-> b ] ] :
          st \in ErrorStatuses, b \in ErrorBodies }
    \cup
    { [ kind |-> "response",
        response |-> [ ok |-> FALSE, status |-> st, jsonOk |-> FALSE, body |-> EmptyObject ] ] :
          st \in ErrorStatuses }
    \cup
    { [ kind |-> "reject", error |-> e ] : e \in NetworkErrors \cup { AbortError } }

\* what is remembered of the way the fetches of a request settled: the kind
\* and HTTP status of the last one, and whether all of them were rejections
\* of the network stack
Summary(outcome, type, before) ==
    LET kind == IF outcome.kind = "response"
                THEN IF ~outcome.response.ok THEN "http"
                     ELSE IF outcome.response.body \in EmptyBodies(type)
                          THEN "empty" ELSE "ok"
                ELSE IF IsAbort(outcome) THEN "timeout" ELSE "network"
    IN  [ kind   |-> kind,
          status |-> IF outcome.kind = "response" THEN outcome.response.status ELSE 0,
          onlyNetwork |-> kind = "network" /\ (before = <<>> \/ before[1].onlyNetwork) ]

(***************************************************************************)
(* background.js: fetchExplanationWithResilience and the FETCH_EXPLANATION *)
(* message handler.                                                        *)
(***************************************************************************)
IdleReq ==
    [ pc |-> "idle", text |-> "", tone |-> "", language |-> "",
      stored |-> EmptyObject, providerId |-> "", apiKey |-> "", attempt |-> 0,
      lastError |-> <<>>, delay |-> 0 ]

NoKeyError == "No API key configured. Open Settings and add your API key."

\* a classification that does not know the rejections of the network stack
isRetryableStatusOnly(error) ==
    \/ Includes(error.message, "timeout")
    \/ Includes(error.message, "500")
    \/ Includes(error.message, "429")

\* the classification in the catch block of the retry loop
isRetryable(error) ==
    \/ Includes(error.message, "timeout")
    \/ Includes(error.message, "network")
    \/ Includes(error.message, "fetch")
    \/ Includes(error.message, "500")
    \/ Includes(error.message, "429")

\* return { success: false, error: lastError?.message || 'Failed to fetch explanation' }
FailureResult(lastError) ==
    [ success |-> FALSE,
      error   |-> IF Falsy(Opt(lastError, "message"))
                  THEN "Failed to fetch explanation" ELSE lastError[1].message ]

\* stored.provider || 'openai'
StoredProvider(stored) ==
    IF "provider" \in DOMAIN stored /\ stored.provider # "" THEN stored.provider ELSE "openai"

\* a handler that takes a placeholder for a key that is missing
StoredKeyOrPlaceholder(stored) ==
    IF KeyOf(IF "apiKeys" \in DOMAIN stored THEN stored.apiKeys ELSE EmptyObject,
             IF "provider" \in DOMAIN stored /\ stored.provider # ""
             THEN stored.provider ELSE "openai") = ""
    THEN "none"
    ELSE KeyOf(stored.apiKeys,
               IF "provider" \in DOMAIN stored /\ stored.provider # ""
               THEN stored.provider ELSE "openai")

\* (stored.apiKeys || {})[providerId] || ''
StoredKey(stored) ==
    KeyOf(IF "apiKeys" \in DOMAIN stored THEN stored.apiKeys ELSE EmptyObject,
          StoredProvider(stored))

\* a pass whose dispatcher call never settles: no step follows it
AttemptUnanswered(r) ==
    /\ httpLog' = Append(httpLog,
                     callProviderRequest(r.providerId, r.apiKey, r.text, r.tone, r.language))
    /\ req' = [ r EXCEPT !.pc = "pending" ]

\* a pass that asks the local store anew for the provider and its key
AttemptFromStore(r) ==
    /\ httpLog' = Append(httpLog,
                     callProviderRequest(StoredProvider(localStore), StoredKey(localStore),
                                         r.text, r.tone, r.language))
    /\ req' = [ r EXCEPT !.pc = "fetching" ]

\* one pass through the try block: callProvider hands its request to fetch
Attempt(r) ==
    /\ httpLog' = Append(httpLog,
                     callProviderRequest(r.providerId, r.apiKey, r.text, r.tone, r.language))
    /\ req' = [ r EXCEPT !.pc = "fetching" ]

\* chrome.runtime.onMessage, type FETCH_EXPLANATION: ask the local store
OnFetchExplanation ==
    /\ req.pc \in { "idle", "done" }
    /\ \E text \in Texts, m \in MessageSettings :
          req' = [ IdleReq EXCEPT !.pc = "reading", !.text = text,
                                  !.tone = m[1], !.language = m[2] ]
    /\ httpLog' = <<>>
    /\ lastOutcome' = <<>>
    /\ thrown' = <<>>
    /\ response' = <<>>
    /\ popupView' = <<>>
    /\ popupFetch' = "awaiting"
    /\ UNCHANGED << storeVars, settingsVars, lookupVars, pageVars, workerVars, other >>

\* the callback of chrome.storage.local.get(['provider', 'apiKeys'])
StoredCallback ==
    /\ req.pc = "reading"
    /\ LET stored     == localStore
           providerId == StoredProvider(stored)
           apiKey     == StoredKey(stored)
       IN  IF apiKey = ""
           THEN /\ response' = << [ success |-> FALSE, error |-> NoKeyError ] >>
                /\ req' = [ req EXCEPT !.pc = "done", !.stored = stored ]
                /\ UNCHANGED httpLog
           ELSE /\ Attempt([ req EXCEPT !.stored = stored, !.providerId = providerId,
                                        !.apiKey = apiKey ])
                /\ UNCHANGED response
    /\ UNCHANGED << storeVars, settingsVars, lookupVars, pageVars, workerVars, other, lastOutcome, thrown, popupView,
                    popupFetch >>

\* the pending fetch settles: the rest of the try block, or the catch block
FetchSettles ==
    /\ req.pc = "fetching"
    /\ \E outcome \in FetchOutcomes(ProviderCfg(req.providerId).type) :
          LET r == callProvider(req.providerId, outcome)
          IN  /\ lastOutcome' = << Summary(outcome, ProviderCfg(req.providerId).type,
                                            lastOutcome) >>
              /\ IF r.returned
                 THEN /\ thrown' = <<>>
                      /\ response' = << [ success |-> TRUE, result |-> r.value ] >>
                      /\ req' = [ req EXCEPT !.pc = "done" ]
                 ELSE /\ thrown' = << r.error >>
                      /\ IF isRetryable(r.error) /\ req.attempt < RETRY_ATTEMPTS
                         THEN /\ req' = [ req EXCEPT
                                    !.pc = "sleeping",
                                    !.lastError = << r.error >>,
                                    !.delay = RETRY_DELAY_MS * Pow2(req.attempt) ]
                              /\ UNCHANGED response
                         ELSE /\ req' = [ req EXCEPT !.pc = "done",
                                                      !.lastError = << r.error >> ]
                              /\ response' = << FailureResult(<< r.error >>) >>
    /\ UNCHANGED << storeVars, settingsVars, lookupVars, pageVars, workerVars, other, httpLog, popupView, popupFetch >>

\* the backoff timer fires: `continue`, attempt++ and the loop condition
SleepDone ==
    /\ req.pc = "sleeping"
    /\ LET r == [ req EXCEPT !.attempt = req.attempt + 1, !.delay = 0 ]
       IN  IF r.attempt <= RETRY_ATTEMPTS
           THEN /\ Attempt(r)
                /\ UNCHANGED response
           ELSE /\ req' = [ r EXCEPT !.pc = "done" ]
                /\ response' = << FailureResult(r.lastError) >>
                /\ UNCHANGED httpLog
    /\ UNCHANGED << storeVars, settingsVars, lookupVars, pageVars, workerVars, other, lastOutcome, thrown, popupView,
                    popupFetch >>

(***************************************************************************)
(* popup.js: what fetchExplanation makes of the response (lines 1093-1112).*)
(***************************************************************************)
\* response?.error?.toLowerCase().includes('no api key') || ...includes('api key')
isNoKeyError(resp) ==
    /\ "error" \in DOMAIN resp
    /\ \/ Includes(ToLowerCase(resp.error), "no api key")
       \/ Includes(ToLowerCase(resp.error), "api key")

\* PROVIDER_META[id].name
PROVIDER_META_NAME ==
    [ openai |-> "OpenAI", anthropic |-> "Anthropic", gemini |-> "Google", groq |-> "Groq" ]

\* updateSettingsBadge: (PROVIDER_META[s.provider] || PROVIDER_META.openai).name
providerName(provider) ==
    IF provider \in DOMAIN PROVIDER_META_NAME THEN PROVIDER_META_NAME[provider]
    ELSE IF provider \in ObjectPrototypeKeys THEN "undefined"
    ELSE PROVIDER_META_NAME.openai

\* an error state that never hides the Retry button
showErrorStateKeepingRetry(errorMessage, isNoKeyErrorArg) ==
    [ state |-> "error", message |-> errorMessage,
      isNoKeyError |-> isNoKeyErrorArg # <<>> /\ isNoKeyErrorArg[1],
      retryHidden    |-> FALSE,
      settingsHidden |-> ~(isNoKeyErrorArg # <<>> /\ isNoKeyErrorArg[1]) ]

\* showErrorState(errorMessage, originalText, isNoKeyError = false): the
\* third argument is <<>> when the caller hands undefined.  retryHidden and
\* settingsHidden tell whether #retry-btn and #error-settings-btn carry the
\* class 'hidden' afterwards
showErrorState(errorMessage, isNoKeyErrorArg) ==
    LET noKey == isNoKeyErrorArg # <<>> /\ isNoKeyErrorArg[1]
    IN  [ state |-> "error", message |-> errorMessage, isNoKeyError |-> noKey,
          retryHidden    |-> noKey,
          settingsHidden |-> ~noKey ]

\* the awaited sendMessage resolves in a popup that is still open; the
\* finally block sets abortController = null
PopupOnResponse ==
    /\ req.pc = "done"
    /\ popupView = <<>>
    /\ popupFetch = "awaiting"
    /\ popupFetch' = "idle"
    /\ LET resp == response[1]
       IN  popupView' =
             IF resp.success
             THEN << [ state |-> "result", explanation |-> resp.result,
                       badge |-> providerName(popup.settings.provider) ] >>
             ELSE << showErrorState(resp.error, << isNoKeyError(resp) >>) >>
    /\ UNCHANGED << storeVars, settingsVars, lookupVars, pageVars, workerVars, other, req, httpLog, lastOutcome, thrown,
                    response >>

(***************************************************************************)
(* A second FETCH_EXPLANATION message, handled while the first request is  *)
(* being served.  Each call of the handler and of                          *)
(* fetchExplanationWithResilience has its own locals (providerId, apiKey,  *)
(* attempt, lastError) and each call of fetchWithTimeout its own           *)
(* controller and timer; `other` holds those of the second call, sent      *)
(* counting the requests it handed to fetch.                               *)
(***************************************************************************)
IdleOther ==
    [ pc |-> "idle", providerId |-> "", apiKey |-> "", attempt |-> 0, delay |-> 0,
      sent |-> 0, lastError |-> <<>>, response |-> <<>> ]

\* what the pending fetch of the second request may settle with: a body with
\* a text, a rejection of the network stack, or its own timer's abort
OverlapOutcomes(type) ==
    { o \in FetchOutcomes(type) :
        \/ o.kind = "reject"
        \/ o.kind = "response" /\ o.response.ok /\ o.response.body \in TextBodies(type) }

\* a loop counter that all calls of the loop share
loopAttemptShared(own, sibling) ==
    IF sibling.attempt > own.attempt THEN sibling.attempt ELSE own.attempt

\* for (let attempt = 0; ...): the counter of this call of the loop
loopAttempt(own, sibling) == own.attempt

OtherFetchExplanation ==
    /\ other.pc = "idle"
    /\ other' = [ other EXCEPT !.pc = "reading" ]
    /\ UNCHANGED << storeVars, settingsVars, lookupVars, pageVars, workerVars, req, httpLog, lastOutcome,
                    thrown, response, popupView, popupFetch >>

OtherStoredCallback ==
    /\ other.pc = "reading"
    /\ LET stored     == localStore
           providerId == StoredProvider(stored)
           apiKey     == StoredKey(stored)
       IN  IF apiKey = ""
           THEN other' = [ other EXCEPT
                    !.pc = "done",
                    !.response = << [ success |-> FALSE, error |-> NoKeyError ] >> ]
           ELSE other' = [ other EXCEPT !.pc = "fetching", !.providerId = providerId,
                                        !.apiKey = apiKey, !.sent = 1 ]
    /\ UNCHANGED << storeVars, settingsVars, lookupVars, pageVars, workerVars, req, httpLog, lastOutcome,
                    thrown, response, popupView, popupFetch >>

OtherFetchSettles ==
    /\ other.pc = "fetching"
    /\ \E outcome \in OverlapOutcomes(ProviderCfg(other.providerId).type) :
          LET r       == callProvider(other.providerId, outcome)
              attempt == loopAttempt(other, req)
          IN  IF r.returned
              THEN other' = [ other EXCEPT
                       !.pc = "done",
                       !.response = << [ success |-> TRUE, result |-> r.value ] >> ]
              ELSE IF isRetryable(r.error) /\ attempt < RETRY_ATTEMPTS
                   THEN other' = [ other EXCEPT
                            !.pc = "sleeping",
                            !.lastError = << r.error >>,
                            !.delay = RETRY_DELAY_MS * Pow2(attempt) ]
                   ELSE other' = [ other EXCEPT
                            !.pc = "done",
                            !.lastError = << r.error >>,
                            !.response = << FailureResult(<< r.error >>) >> ]
    /\ UNCHANGED << storeVars, settingsVars, lookupVars, pageVars, workerVars, req, httpLog, lastOutcome,
                    thrown, response, popupView, popupFetch >>

OtherSleepDone ==
    /\ other.pc = "sleeping"
    /\ LET r == [ other EXCEPT !.attempt = loopAttempt(other, req) + 1, !.delay = 0 ]
       IN  IF r.attempt <= RETRY_ATTEMPTS
           THEN other' = [ r EXCEPT !.pc = "fetching", !.sent = other.sent + 1 ]
           ELSE other' = [ r EXCEPT !.pc = "done",
                                    !.response = << FailureResult(r.lastError) >> ]
    /\ UNCHANGED << storeVars, settingsVars, lookupVars, pageVars, workerVars, req, httpLog, lastOutcome,
                    thrown, response, popupView, popupFetch >>

\* window 'unload' while the request is in flight: hideLoadingState calls
\* abortController.abort() and sets abortController = null.  The controller's
\* signal is handed to nobody (chrome.runtime.sendMessage takes none), so the
\* service worker's request is left as it is.
PopupUnload ==
    /\ popupFetch = "awaiting"
    /\ req.pc \in { "reading", "fetching", "sleeping" }
    /\ popupFetch' = "torndown"
    /\ UNCHANGED << storeVars, settingsVars, lookupVars, pageVars, workerVars, other, req, httpLog, lastOutcome, thrown,
                    response, popupView >>

(***************************************************************************)
(* The two stores.  chrome.storage.*.set merges the payload into the store;*)
(* a failed call writes nothing.                                           *)
(***************************************************************************)
Merge(store, payload) ==
    [ k \in DOMAIN store \cup DOMAIN payload |->
        IF k \in DOMAIN payload THEN payload[k] ELSE store[k] ]

\* obj.k || dflt, for string properties
OrElse(obj, k, dflt) == IF k \in DOMAIN obj /\ obj[k] # "" THEN obj[k] ELSE dflt

\* obj.apiKeys || {}
ApiKeysOf(obj) == IF "apiKeys" \in DOMAIN obj THEN obj.apiKeys ELSE EmptyObject

\* keyInput.value.trim(), for the values the model types
Trim(v) ==
    LET RECURSIVE TrimLeft(_), TrimRight(_)
        TrimLeft(x)  == IF Len(x) > 0 /\ SubSeq(x, 1, 1) = " "
                        THEN TrimLeft(SubSeq(x, 2, Len(x))) ELSE x
        TrimRight(x) == IF Len(x) > 0 /\ SubSeq(x, Len(x), Len(x)) = " "
                        THEN TrimRight(SubSeq(x, 1, Len(x) - 1)) ELSE x
    IN  TrimRight(TrimLeft(v))

\* the (language, tone) pairs the user may pick in a settings form
FormChoices == { << "en", "simple" >>, << "ru", "kid" >> }

\* what the user may type into a key field
KeyValues == { "", "sk-typed-A", " gsk_typed_B " }

\* credentials the stores may hold before the session
SavedKeys == [ openai |-> "sk-saved-openai", anthropic |-> "sk-ant-saved" ]

(***************************************************************************)
(* popup.js: validateSettings and saveSettings.                            *)
(***************************************************************************)
validLanguages == { "en", "ru" }
validTones     == { "simple", "kid", "expert" }
validProviders == { "openai", "anthropic", "gemini", "groq" }

validateSettings(s) ==
    /\ ~("language" \in DOMAIN s /\ s.language # "" /\ s.language \notin validLanguages)
    /\ ~("tone"     \in DOMAIN s /\ s.tone     # "" /\ s.tone     \notin validTones)
    /\ ~("provider" \in DOMAIN s /\ s.provider # "" /\ s.provider \notin validProviders)

\* a save that hands the whole settings object to the cross-device store
syncEverything(newSettings) ==
    newSettings

\* the payload of chrome.storage.sync.set in saveSettings: { language, tone }
syncPreferences(newSettings) ==
    [ language |-> newSettings.language, tone |-> newSettings.tone ]

\* a fallback that writes the provider and the keys only
fallbackSecretsOnly(newSettings) ==
    [ provider |-> newSettings.provider, apiKeys |-> newSettings.apiKeys ]

\* the payload of chrome.storage.local.set in the catch block of saveSettings:
\* { language, tone, provider, apiKeys }
fallbackPayload(newSettings) ==
    [ language |-> newSettings.language, tone |-> newSettings.tone,
      provider |-> newSettings.provider, apiKeys |-> newSettings.apiKeys ]

\* saveSettings(newSettings), for the outcomes of the store calls it awaits:
\* syncOk for sync.set, localOk for local.set of the try block, fallbackOk for
\* local.set of the catch block.  The result names the calls issued, the stores
\* afterwards, the in-memory settings and the value returned.
saveSettings(newSettings, settings, sync, local, syncOk, localOk, fallbackOk) ==
    LET prefs    == syncPreferences(newSettings)
        secrets  == [ provider |-> newSettings.provider, apiKeys |-> newSettings.apiKeys ]
        all      == fallbackPayload(newSettings)
        sync1    == IF syncOk THEN Merge(sync, prefs) ELSE sync
        tryOk    == syncOk /\ localOk
        local1   == IF tryOk THEN Merge(local, secrets) ELSE local
    IN  IF ~validateSettings(newSettings)
        THEN [ syncCalls |-> <<>>, localCalls |-> <<>>, sync |-> sync, local |-> local,
               settings |-> settings,
               result |-> [ success |-> FALSE, error |-> "Invalid settings values" ] ]
        ELSE IF tryOk
        THEN [ syncCalls |-> << prefs >>, localCalls |-> << secrets >>,
               sync |-> sync1, local |-> local1,
               settings |-> Merge(settings, newSettings),
               result |-> [ success |-> TRUE ] ]
        ELSE [ syncCalls  |-> << prefs >>,
               localCalls |-> IF syncOk THEN << secrets, all >> ELSE << all >>,
               sync  |-> sync1,
               local |-> IF fallbackOk THEN Merge(local, all) ELSE local,
               settings |-> IF fallbackOk THEN Merge(settings, newSettings) ELSE settings,
               result |-> IF fallbackOk
                          THEN [ success |-> TRUE, fallback |-> TRUE ]
                          ELSE [ success |-> FALSE, error |-> "Failed to save settings" ] ]

(***************************************************************************)
(* popup.js: the settings screen.  popup.settings and popup.draftApiKeys   *)
(* are the module variables of that name; keyInput and radio are the       *)
(* values of #api-key-input and of the checked provider radio; typed      *)
(* remembers, per provider, what the user last typed into the key input    *)
(* in the settings session under way.                                      *)
(***************************************************************************)
DefaultSettings ==
    [ language |-> "en", tone |-> "simple", provider |-> "openai", apiKeys |-> EmptyObject ]

PopupInit ==
    [ loaded |-> FALSE, screen |-> "result", settings |-> DefaultSettings,
      draftApiKeys |-> EmptyObject, keyInput |-> "", radio |-> "openai",
      languageSelect |-> "en", toneSelect |-> "simple",
      typed |-> EmptyObject ]

\* a key field that shows the saved key only
updateApiKeyFieldSaved(p, providerId) ==
    KeyOf(p.settings.apiKeys, providerId)

\* updateApiKeyField(providerId): the value put into the key input
updateApiKeyField(p, providerId) ==
    IF providerId \in DOMAIN p.draftApiKeys
    THEN p.draftApiKeys[providerId]
    ELSE KeyOf(p.settings.apiKeys, providerId)

\* updateSettingsUI()
updateSettingsUI(p) ==
    LET q == [ p EXCEPT !.draftApiKeys = EmptyObject, !.typed = EmptyObject ]
    IN  [ q EXCEPT !.languageSelect = p.settings.language,
                   !.toneSelect = p.settings.tone,
                   !.radio = IF p.settings.provider \in ProviderIds
                             THEN p.settings.provider ELSE p.radio,
                   !.keyInput = updateApiKeyField(q, p.settings.provider) ]

\* onProviderSwitch(newProviderId)
onProviderSwitch(p, newProviderId) ==
    LET q == [ p EXCEPT !.draftApiKeys =
                           Merge(p.draftApiKeys,
                                 [ k \in { p.settings.provider } |-> p.keyInput ]),
                        !.settings.provider = newProviderId ]
    IN  [ q EXCEPT !.keyInput = updateApiKeyField(q, newProviderId) ]

\* loadSettings(): both reads are awaited together; either failing is caught
loadSettings(p, sync, local, syncReadOk, localReadOk) ==
    IF syncReadOk /\ localReadOk
    THEN updateSettingsUI(
           [ p EXCEPT !.settings =
               [ language |-> OrElse(sync, "language", "en"),
                 tone     |-> OrElse(sync, "tone", "simple"),
                 provider |-> OrElse(local, "provider", "openai"),
                 apiKeys  |-> ApiKeysOf(local) ] ])
    ELSE [ p EXCEPT !.settings = DefaultSettings ]

(***************************************************************************)
(* inline-popup.js: loadInlineSettings, saveInlineSettings and the         *)
(* settings form built by createInlinePopup.                               *)
(***************************************************************************)
INLINE_DEFAULT_SETTINGS ==
    [ language |-> "en", tone |-> "simple", provider |-> "openai", apiKeys |-> EmptyObject ]

\* loadInlineSettings: a failed read hands {} to its callback
loadInlineSettings(sync, local, syncReadOk, localReadOk) ==
    LET syncStored  == IF syncReadOk THEN sync ELSE EmptyObject
        localStored == IF localReadOk THEN local ELSE EmptyObject
    IN  [ language |-> OrElse(syncStored, "language",
                          OrElse(localStored, "language", INLINE_DEFAULT_SETTINGS.language)),
          tone     |-> OrElse(syncStored, "tone",
                          OrElse(localStored, "tone", INLINE_DEFAULT_SETTINGS.tone)),
          provider |-> OrElse(localStored, "provider", INLINE_DEFAULT_SETTINGS.provider),
          apiKeys  |-> ApiKeysOf(localStored) ]

\* saveInlineSettings(nextSettings, callback), for the outcomes of its two
\* store calls; the result is shaped as that of saveSettings
\* a save that takes the request as the saved settings whatever the stores did
saveInlineSettingsEager(nextSettings, currentSettings, sync, local, syncOk, localOk) ==
    LET normalized ==
            [ language |-> OrElse(nextSettings, "language", INLINE_DEFAULT_SETTINGS.language),
              tone     |-> OrElse(nextSettings, "tone", INLINE_DEFAULT_SETTINGS.tone),
              provider |-> OrElse(nextSettings, "provider", INLINE_DEFAULT_SETTINGS.provider),
              apiKeys  |-> ApiKeysOf(nextSettings) ]
        prefs   == [ language |-> normalized.language, tone |-> normalized.tone ]
        secrets == [ provider |-> normalized.provider, apiKeys |-> normalized.apiKeys ]
    IN  [ syncCalls  |-> << prefs >>,
          localCalls |-> << secrets >>,
          sync       |-> IF syncOk THEN Merge(sync, prefs) ELSE sync,
          local      |-> IF localOk THEN Merge(local, secrets) ELSE local,
          settings   |-> normalized,
          result     |-> IF localOk
                         THEN [ success |-> TRUE, fallback |-> ~syncOk ]
                         ELSE [ success |-> FALSE,
                                error |-> "Failed to save settings to local storage" ] ]

saveInlineSettings(nextSettings, currentSettings, sync, local, syncOk, localOk) ==
    LET normalized ==
            [ language |-> OrElse(nextSettings, "language", INLINE_DEFAULT_SETTINGS.language),
              tone     |-> OrElse(nextSettings, "tone", INLINE_DEFAULT_SETTINGS.tone),
              provider |-> OrElse(nextSettings, "provider", INLINE_DEFAULT_SETTINGS.provider),
              apiKeys  |-> ApiKeysOf(nextSettings) ]
        prefs   == [ language |-> normalized.language, tone |-> normalized.tone ]
        secrets == [ provider |-> normalized.provider, apiKeys |-> normalized.apiKeys ]
    IN  [ syncCalls  |-> << prefs >>,
          localCalls |-> << secrets >>,
          sync       |-> IF syncOk THEN Merge(sync, prefs) ELSE sync,
          local      |-> IF localOk THEN Merge(local, secrets) ELSE local,
          settings   |-> IF localOk THEN normalized ELSE currentSettings,
          result     |-> IF localOk
                         THEN [ success |-> TRUE, fallback |-> ~syncOk ]
                         ELSE [ success |-> FALSE,
                                error |-> "Failed to save settings to local storage" ] ]

\* the closure of createInlinePopup's settings callback; typed is kept as in
\* the toolbar popup, testing is the VALIDATE_API_KEY message awaiting its
\* response, last names the handler that ran last
InlineInit ==
    [ open |-> FALSE, currentSettings |-> INLINE_DEFAULT_SETTINGS,
      activeProvider |-> "openai", draftApiKeys |-> EmptyObject,
      keyStatusByProvider |-> [ id \in ProviderIds |-> "not-set" ],
      keyStatusMessageByProvider |-> [ id \in ProviderIds |-> "" ],
      keyInput |-> "", testing |-> <<>>, typed |-> EmptyObject, last |-> "" ]

\* setInlineKeyStatus(providerId, status, message)
setInlineKeyStatus(i, providerId, status, message) ==
    [ i EXCEPT !.keyStatusByProvider = Merge(@, [ k \in { providerId } |-> status ]),
               !.keyStatusMessageByProvider = Merge(@, [ k \in { providerId } |-> message ]) ]

\* the status an edit leaves: keyValue ? 'saved' : 'not-set'
EditedStatus(keyValue) == IF keyValue = "" THEN "not-set" ELSE "saved"

\* the inline updateApiKeyField(providerId)
inlineUpdateApiKeyField(i, providerId) ==
    [ i EXCEPT !.activeProvider = providerId,
               !.keyInput = KeyOf(i.draftApiKeys, providerId) ]

\* draftApiKeys[activeProvider] = keyInput.value.trim()
InlineCaptureDraft(i) ==
    [ i EXCEPT !.draftApiKeys =
        Merge(i.draftApiKeys, [ k \in { i.activeProvider } |-> Trim(i.keyInput) ]) ]

\* the callback createInlinePopup hands to loadInlineSettings
InlineOpened(currentSettings) ==
    inlineUpdateApiKeyField(
        [ InlineInit EXCEPT
            !.open = TRUE,
            !.currentSettings = currentSettings,
            !.draftApiKeys = currentSettings.apiKeys,
            !.keyStatusByProvider =
                [ id \in ProviderIds |->
                    EditedStatus(KeyOf(currentSettings.apiKeys, id)) ] ],
        currentSettings.provider)

\* providerSelect 'change'
inlineProviderChange(i, newProviderId) ==
    LET j == InlineCaptureDraft(i)
    IN  inlineUpdateApiKeyField(
            setInlineKeyStatus(j, i.activeProvider,
                               EditedStatus(j.draftApiKeys[i.activeProvider]), ""),
            newProviderId)

\* keyInput 'input'
inlineKeyInput(i, typed) ==
    LET j == InlineCaptureDraft(
                 [ i EXCEPT !.keyInput = typed,
                            !.typed = Merge(i.typed, [ k \in { i.activeProvider } |-> typed ]) ])
    IN  setInlineKeyStatus(j, i.activeProvider, EditedStatus(Trim(typed)), "")

\* a test that does not look at the value before sending it
inlineTestClickUnguarded(i) ==
    [ setInlineKeyStatus(i, i.activeProvider, "testing", "") EXCEPT
        !.testing = << [ provider |-> i.activeProvider, apiKey |-> Trim(i.keyInput) ] >> ]

\* testKeyBtn 'click', up to the await
inlineTestClick(i) ==
    LET apiKey == Trim(i.keyInput)
    IN  IF apiKey = ""
        THEN setInlineKeyStatus(i, i.activeProvider, "not-set", "")
        ELSE [ setInlineKeyStatus(i, i.activeProvider, "testing", "") EXCEPT
                 !.testing = << [ provider |-> i.activeProvider, apiKey |-> apiKey ] >> ]

\* (response?.error || 'Invalid key').slice(0, 60)
ShortError(resp) ==
    LET e == IF Falsy(Opt(resp, "error")) THEN "Invalid key" ELSE resp[1].error
    IN  SubSeq(e, 1, IF Len(e) < 60 THEN Len(e) ELSE 60)

\* a test that keeps the key it found valid as the saved one
inlineTestSettledKeeping(i, resp) ==
    LET j == [ i EXCEPT !.testing = <<>> ]
    IN  IF Len(resp) > 0 /\ resp[1].success
        THEN [ setInlineKeyStatus(j, i.activeProvider, "validated", "") EXCEPT
                 !.currentSettings.apiKeys =
                     Merge(@, [ k \in { i.testing[1].provider } |-> i.testing[1].apiKey ]) ]
        ELSE setInlineKeyStatus(j, i.activeProvider, "invalid", ShortError(resp))

\* testKeyBtn 'click', after the await: resp is <<>> when no response came
inlineTestSettled(i, resp) ==
    LET j == [ i EXCEPT !.testing = <<>> ]
    IN  IF Len(resp) > 0 /\ resp[1].success
        THEN setInlineKeyStatus(j, i.activeProvider, "validated", "")
        ELSE setInlineKeyStatus(j, i.activeProvider, "invalid", ShortError(resp))

\* nextSettings of the save button's click handler
inlineNextSettings(i, language, tone) ==
    LET j == InlineCaptureDraft(i)
    IN  [ provider |-> i.activeProvider, language |-> language, tone |-> tone,
          apiKeys  |-> Merge(i.currentSettings.apiKeys, j.draftApiKeys) ]

\* background.js: an empty textStorage.  Time is counted in minutes; an
\* entry carries, besides text and timestamp, the number of the message that
\* stored it and the tab that sent it; returned lists the entries handed out
TextsInit ==
    [ textStorage |-> <<>>, now |-> 0, stores |-> 0, returned |-> <<>>, answer |-> <<>> ]

\* background.js, backend-proxy variant: no request is being served
ProxyInit ==
    [ pc |-> "idle", attempt |-> 0, mainCalls |-> 0, outcomes |-> <<>>, delay |-> 0,
      lastError |-> <<>>, result |-> <<>> ]

\* inline-popup.js: a page on which no inline popup was created yet
PopupNumbers == 1 .. MaxPopups

PageInit ==
    [ created         |-> 0,       \* createInlinePopup calls so far
      loading         |-> {},      \* calls whose loadInlineSettings has not called back
      attached        |-> {},      \* containers that are children of document.body
      built           |-> {},      \* shadow roots that hold the popup markup
      inlinePopup     |-> 0,
      popupShadowRoot |-> 0,
      sent            |-> 0,       \* FETCH_EXPLANATION messages sent so far
      inflight        |-> {},      \* messages whose response is awaited
      issued          |-> [ c \in PopupNumbers |-> 0 ],   \* last request of each popup
      shown           |-> [ c \in PopupNumbers |-> [ n |-> 0, kind |-> "loading" ] ] ]

(***************************************************************************)
(* Initial states: what the two stores may hold when the extension starts. *)
(***************************************************************************)
InitialSync ==
    { EmptyObject, [ language |-> "ru", tone |-> "expert" ] }

InitialLocal ==
    { EmptyObject,
      [ apiKeys |-> SavedKeys ],
      [ provider |-> "anthropic", apiKeys |-> SavedKeys ] }

Init ==
    /\ syncStore \in InitialSync
    /\ localStore \in InitialLocal
    /\ syncWrites = <<>>
    /\ localWrites = <<>>
    /\ req = IdleReq
    /\ httpLog = <<>>
    /\ lastOutcome = <<>>
    /\ thrown = <<>>
    /\ response = <<>>
    /\ popupView = <<>>
    /\ popupFetch = "idle"
    /\ other = IdleOther
    /\ popup = PopupInit
    /\ inline = InlineInit
    /\ saveResult = <<>>
    /\ page = PageInit
    /\ texts = TextsInit
    /\ proxy = ProxyInit
    /\ nOps = 0
    /\ call = <<>>

\* the effect of a save, given the record saveSettings / saveInlineSettings yields
Saved(s) ==
    /\ syncStore' = s.sync
    /\ localStore' = s.local
    /\ syncWrites' = s.syncCalls
    /\ localWrites' = s.localCalls
    /\ saveResult' = << s.result >>

(***************************************************************************)
(* A caller of saveSettings while explanation requests are served; its    *)
(* store calls go through.                                                 *)
(***************************************************************************)
DirectSave ==
    /\ nOps < MaxSaves
    /\ \E provider \in ProviderIds, key \in { "sk-typed-A" }, syncOk \in { TRUE } :
          LET newSettings ==
                  [ language |-> "en", tone |-> "simple", provider |-> provider,
                    apiKeys  |-> Merge(ApiKeysOf(localStore),
                                       [ k \in { provider } |-> key ]) ]
              s == saveSettings(newSettings, popup.settings, syncStore, localStore,
                                syncOk, TRUE, TRUE)
          IN  /\ Saved(s)
              /\ popup' = [ popup EXCEPT !.settings = s.settings ]
    /\ nOps' = nOps + 1
    /\ UNCHANGED << requestVars, lookupVars, pageVars, workerVars, inline >>

(***************************************************************************)
(* popup.js: the handlers of the settings screen.                          *)
(***************************************************************************)
\* init(): loadSettings, then the first-run check, for the outcomes of the
\* two store reads
PopupLoadWith(syncReadOk, localReadOk) ==
    /\ ~popup.loaded
    /\ ~inline.open
    /\ nOps < MaxOps
    /\    LET p == loadSettings(popup, syncStore, localStore, syncReadOk, localReadOk)
          IN  popup' = [ p EXCEPT
                  !.loaded = TRUE,
                  !.screen = IF KeyOf(p.settings.apiKeys, p.settings.provider) = ""
                             THEN "settings" ELSE "result" ]
    /\ nOps' = nOps + 1
    /\ UNCHANGED << storeVars, requestVars, lookupVars, pageVars, workerVars, inline, saveResult >>

PopupLoad ==
    \E syncReadOk \in BOOLEAN, localReadOk \in BOOLEAN :
        PopupLoadWith(syncReadOk, localReadOk)

\* settings button
PopupOpenSettings ==
    /\ popup.loaded /\ popup.screen = "result"
    /\ nOps < MaxOps
    /\ popup' = [ updateSettingsUI(popup) EXCEPT !.screen = "settings" ]
    /\ nOps' = nOps + 1
    /\ UNCHANGED << storeVars, requestVars, lookupVars, pageVars, workerVars, inline, saveResult >>

\* the user edits #api-key-input (popup.js listens to no input event); the
\* field holds the key of settings.provider, the provider updateApiKeyField
\* filled it for and onProviderSwitch will file its value under
PopupTypeKey ==
    /\ popup.loaded /\ popup.screen = "settings"
    /\ nOps < MaxOps
    /\ \E typed \in KeyValues :
          /\ typed # popup.keyInput
          /\ popup' = [ popup EXCEPT
                 !.keyInput = typed,
                 !.typed = Merge(popup.typed,
                                [ k \in { popup.settings.provider } |-> typed ]) ]
    /\ nOps' = nOps + 1
    /\ UNCHANGED << storeVars, requestVars, lookupVars, pageVars, workerVars, inline, saveResult >>

\* provider radio 'change'
PopupProviderSwitch ==
    /\ popup.loaded /\ popup.screen = "settings"
    /\ nOps < MaxOps
    /\ \E newProviderId \in ProviderIds :
          /\ newProviderId # popup.radio
          /\ popup' = onProviderSwitch([ popup EXCEPT !.radio = newProviderId ],
                                       newProviderId)
    /\ nOps' = nOps + 1
    /\ UNCHANGED << storeVars, requestVars, lookupVars, pageVars, workerVars, inline, saveResult >>

\* back button
PopupBack ==
    /\ popup.loaded /\ popup.screen = "settings"
    /\ nOps < MaxOps
    /\ popup' = [ updateSettingsUI(
                    [ popup EXCEPT !.draftApiKeys = EmptyObject,
                                   !.settings.provider = popup.radio ])
                  EXCEPT !.screen = "result" ]
    /\ nOps' = nOps + 1
    /\ UNCHANGED << storeVars, requestVars, lookupVars, pageVars, workerVars, inline, saveResult >>

\* settings form 'submit', for the form's choices and the outcomes of the
\* store calls of saveSettings
PopupSubmitWith(f, syncOk, localOk, fallbackOk) ==
    /\ popup.loaded /\ popup.screen = "settings"
    /\ nOps < MaxOps
    /\    LET language   == f[1]
              tone       == f[2]
              provider   == popup.radio
              currentKey == Trim(popup.keyInput)
              draft      == Merge(popup.draftApiKeys, [ k \in { provider } |-> currentKey ])
              mergedKeys == Merge(popup.settings.apiKeys, draft)
              s == saveSettings([ language |-> language, tone |-> tone,
                                  provider |-> provider, apiKeys |-> mergedKeys ],
                                popup.settings, syncStore, localStore,
                                syncOk, localOk, fallbackOk)
          IN  /\ Saved(s)
              /\ popup' = [ popup EXCEPT
                     !.settings = s.settings,
                     !.languageSelect = language,
                     !.toneSelect = tone,
                     !.draftApiKeys = IF s.result.success THEN EmptyObject ELSE draft,
                     !.typed = IF s.result.success THEN EmptyObject ELSE popup.typed,
                     !.screen = IF s.result.success THEN "saved" ELSE "settings" ]
    /\ nOps' = nOps + 1
    /\ UNCHANGED << requestVars, lookupVars, pageVars, workerVars, inline >>

PopupSubmit ==
    \E f \in FormChoices, syncOk \in BOOLEAN, localOk \in BOOLEAN, fallbackOk \in BOOLEAN :
        PopupSubmitWith(f, syncOk, localOk, fallbackOk)

\* the popup window closes: its script and its state are gone
PopupClose ==
    /\ popup.loaded
    /\ popup' = PopupInit
    /\ UNCHANGED << storeVars, requestVars, lookupVars, pageVars, workerVars, inline, saveResult, nOps >>

\* setTimeout(() => showScreen('result'), 1500) of a successful submit
PopupSavedTimer ==
    /\ popup.screen = "saved"
    /\ popup' = [ popup EXCEPT !.screen = "result" ]
    /\ UNCHANGED << storeVars, requestVars, lookupVars, pageVars, workerVars, inline, saveResult, nOps >>

(***************************************************************************)
(* inline-popup.js: the handlers of the inline settings form.              *)
(***************************************************************************)
\* createInlinePopup, through the callback of loadInlineSettings
InlineCreate ==
    /\ ~inline.open
    /\ ~popup.loaded
    /\ nOps < MaxOps
    /\ \E syncReadOk \in BOOLEAN, localReadOk \in BOOLEAN :
          inline' = [ InlineOpened(
                        loadInlineSettings(syncStore, localStore, syncReadOk, localReadOk))
                      EXCEPT !.last = "create" ]
    /\ nOps' = nOps + 1
    /\ UNCHANGED << storeVars, requestVars, lookupVars, pageVars, workerVars, popup, saveResult >>

InlineProviderChange ==
    /\ inline.open
    /\ nOps < MaxOps
    /\ \E newProviderId \in ProviderIds :
          /\ newProviderId # inline.activeProvider
          /\ inline' = [ inlineProviderChange(inline, newProviderId) EXCEPT
                            !.last = "change" ]
    /\ nOps' = nOps + 1
    /\ UNCHANGED << storeVars, requestVars, lookupVars, pageVars, workerVars, popup, saveResult >>

InlineKeyInput ==
    /\ inline.open
    /\ nOps < MaxOps
    /\ \E typed \in KeyValues :
          /\ typed # inline.keyInput
          /\ inline' = [ inlineKeyInput(inline, typed) EXCEPT !.last = "input" ]
    /\ nOps' = nOps + 1
    /\ UNCHANGED << storeVars, requestVars, lookupVars, pageVars, workerVars, popup, saveResult >>

\* testKeyBtn 'click': the handler runs, whatever the button shows
InlineTestClick ==
    /\ inline.open
    /\ inline.testing = <<>>
    /\ nOps < MaxOps
    /\ inline' = [ inlineTestClick(inline) EXCEPT !.last = "test" ]
    /\ nOps' = nOps + 1
    /\ UNCHANGED << storeVars, requestVars, lookupVars, pageVars, workerVars, popup, saveResult >>

\* the VALIDATE_API_KEY message is answered, or its port closes unanswered
InlineTestSettled ==
    /\ inline.open
    /\ inline.testing # <<>>
    /\ \E resp \in { <<>>, << [ success |-> TRUE ] >>,
                     << [ success |-> FALSE, error |-> "Incorrect API key provided" ] >> } :
          inline' = [ inlineTestSettled(inline, resp) EXCEPT !.last = "tested" ]
    /\ UNCHANGED << storeVars, requestVars, lookupVars, pageVars, workerVars, popup, saveResult, nOps >>

\* save button 'click', for the form's choices and the outcomes of the two
\* store calls of saveInlineSettings
InlineSaveWith(f, syncOk, localOk) ==
    /\ inline.open
    /\ nOps < MaxOps
    /\ LET s == saveInlineSettings(inlineNextSettings(inline, f[1], f[2]),
                                   inline.currentSettings, syncStore, localStore,
                                   syncOk, localOk)
       IN  /\ Saved(s)
           /\ inline' = [ InlineCaptureDraft(inline) EXCEPT
                            !.currentSettings = s.settings, !.last = "save" ]
    /\ nOps' = nOps + 1
    /\ UNCHANGED << requestVars, lookupVars, pageVars, workerVars, popup >>

InlineSave ==
    \E f \in FormChoices, syncOk \in BOOLEAN, localOk \in BOOLEAN :
        InlineSaveWith(f, syncOk, localOk)

\* the settings objects a caller may hand to a save function: the one of the
\* storage-routing scenario, and ones with a value outside the enumerations
SaveInputs ==
    LET ok == [ language |-> "ru", tone |-> "expert", provider |-> "groq",
                apiKeys  |-> [ groq |-> "gsk_test" ] ]
    IN  { ok,
          [ ok EXCEPT !.provider = "facebook" ],
          [ ok EXCEPT !.language = "fr" ],
          [ ok EXCEPT !.tone = "formal" ],
          [ ok EXCEPT !.language = "" ] }

\* saveSettings(newSettings) called with a settings object while the settings
\* screen is not shown (in the popup only the submit handler calls it from
\* that screen); the stores accept what they are handed
PopupSaveCall(newSettings) ==
    /\ popup.loaded /\ popup.screen = "result"
    /\ nOps < MaxOps
    /\ LET s == saveSettings(newSettings, popup.settings, syncStore, localStore,
                             TRUE, TRUE, TRUE)
       IN  /\ Saved(s)
           /\ popup' = [ popup EXCEPT !.settings = s.settings ]
    /\ nOps' = nOps + 1
    /\ UNCHANGED << requestVars, lookupVars, pageVars, workerVars, inline >>

\* saveInlineSettings(nextSettings, callback) called with a settings object
\* while no settings form is open (an open form calls it from its save
\* button only)
InlineSaveCall(nextSettings) ==
    /\ ~inline.open
    /\ nOps < MaxOps
    /\ LET s == saveInlineSettings(nextSettings, inline.currentSettings,
                                   syncStore, localStore, TRUE, TRUE)
       IN  /\ Saved(s)
           /\ inline' = [ inline EXCEPT !.currentSettings = s.settings, !.last = "save" ]
    /\ nOps' = nOps + 1
    /\ UNCHANGED << requestVars, lookupVars, pageVars, workerVars, popup >>

\* removeInlinePopup
InlineClose ==
    /\ inline.open
    /\ inline' = InlineInit
    /\ UNCHANGED << storeVars, requestVars, lookupVars, pageVars, workerVars, popup, saveResult, nOps >>

(***************************************************************************)
(* Specifications.  Spec: the service worker serving explanation requests  *)
(* while settings are saved.  SettingsSpec: the two settings forms.        *)
(***************************************************************************)
Next ==
    \/ OnFetchExplanation
    \/ StoredCallback
    \/ FetchSettles
    \/ SleepDone
    \/ PopupOnResponse
    \/ DirectSave

RequestInit == Init /\ syncStore = EmptyObject

Spec == RequestInit /\ [][Next]_vars

(***************************************************************************)
(* The lookup functions called on their own, as the unit tests call them,  *)
(* with arguments inside and outside the enumerations.                     *)
(***************************************************************************)
PromptTexts ==
    { "hello", "<b>hi</b>", "{text}", "costs $$5", "a $& b", "it's" }

ToneInputs == { "simple", "kid", "expert", "genius", "toString" }

LanguageInputs == { "en", "ru", "fr", "constructor" }

\* buildPrompt(text, tone, language) or getPrompt(tone, language, text)
BuildPromptCall ==
    /\ \E fn \in { "buildPrompt", "getPrompt" }, text \in PromptTexts,
          tone \in ToneInputs, language \in LanguageInputs :
          call' = << [ fn |-> fn, text |-> text, tone |-> tone, language |-> language,
                       threw |-> promptTemplate(tone, language) = <<>>,
                       value |-> IF promptTemplate(tone, language) = <<>>
                                 THEN "TypeError"
                                 ELSE IF fn = "buildPrompt"
                                      THEN buildPrompt(text, tone, language)
                                      ELSE getPrompt(tone, language, text) ] >>
    /\ UNCHANGED << storeVars, requestVars, settingsVars, pageVars, workerVars >>

\* provider ids handed to the lookups, recognised or not
ProviderInputs == ProviderIds \cup { "unknown", "", "constructor" }

\* getProvider(providerId)
GetProviderCall ==
    /\ \E providerId \in ProviderInputs :
          call' = << [ fn |-> "getProvider", providerId |-> providerId,
                       value |-> getProvider(providerId) ] >>
    /\ UNCHANGED << storeVars, requestVars, settingsVars, pageVars, workerVars >>

\* callProvider(providerId, apiKey, text, tone, language), up to the request
\* it hands to fetch
CallProviderCall ==
    /\ \E providerId \in ProviderInputs, apiKey \in { "sk-key", "AIzaKey" },
          m \in MessageSettings :
          call' = << [ fn |-> "callProvider", providerId |-> providerId,
                       apiKey |-> apiKey, tone |-> m[1], language |-> m[2],
                       value |-> callProviderRequest(providerId, apiKey, "text",
                                                     m[1], m[2]) ] >>
    /\ UNCHANGED << storeVars, requestVars, settingsVars, pageVars, workerVars >>

\* values handed to validateSettings in a field: allowed, unknown, of another
\* case, or empty
LanguageValues == { "en", "ru", "fr", "EN", "" }
ToneValues     == { "simple", "expert", "genius", "" }
ProviderValues == { "openai", "groq", "facebook", "OPENAI", "" }

\* a field of the argument: absent ({}) or present with one value
FieldChoices(values) == { {} } \cup { { v } : v \in values }

\* the object literal with the fields that are present
SettingsObject(language, tone, provider) ==
    LET chosen == [ language |-> language, tone |-> tone, provider |-> provider ]
    IN  [ k \in { f \in { "language", "tone", "provider" } : chosen[f] # {} }
             |-> CHOOSE v \in chosen[k] : TRUE ]

\* validateSettings(s)
ValidateSettingsCall ==
    /\ \E language \in FieldChoices(LanguageValues), tone \in FieldChoices(ToneValues),
          provider \in FieldChoices(ProviderValues) :
          call' = << [ fn |-> "validateSettings",
                       s |-> SettingsObject(language, tone, provider),
                       value |-> validateSettings(SettingsObject(language, tone, provider)) ] >>
    /\ UNCHANGED << storeVars, requestVars, settingsVars, pageVars, workerVars >>

LookupNext ==
    \/ BuildPromptCall
    \/ GetProviderCall
    \/ CallProviderCall
    \/ ValidateSettingsCall

LookupSpec == RequestInit /\ [][LookupNext]_vars

(***************************************************************************)
(* inline-popup.js: the popups of one page.  inlinePopup and               *)
(* popupShadowRoot are the module variables of that name (0 for null); a   *)
(* container and its shadow root carry the number of the createInlinePopup *)
(* call that made them.  Requests are those sent by the load callback and  *)
(* by the Retry button.                                                    *)
(***************************************************************************)
\* removeInlinePopup()
removeInlinePopup(pg) ==
    IF pg.inlinePopup # 0 /\ pg.inlinePopup \in pg.attached
    THEN [ pg EXCEPT !.attached = @ \ { pg.inlinePopup },
                     !.inlinePopup = 0, !.popupShadowRoot = 0 ]
    ELSE pg

\* fetchExplanation(text) up to its await, called for popup c
sendFetchExplanation(pg, c) ==
    [ pg EXCEPT !.sent = @ + 1,
                !.inflight = @ \cup { [ n |-> pg.sent + 1, from |-> c ] },
                !.issued[c] = pg.sent + 1 ]

\* showResult / showError: both draw into the shadow root the module variable
\* names when the response arrives, and do nothing when there is none or it
\* holds no result area
showOutcome(pg, n, kind) ==
    IF pg.popupShadowRoot = 0 \/ pg.popupShadowRoot \notin pg.built
    THEN pg
    ELSE [ pg EXCEPT !.shown[pg.popupShadowRoot] = [ n |-> n, kind |-> kind ] ]

\* createInlinePopup(selectedText, options) up to loadInlineSettings
CreateInlinePopup ==
    /\ page.created < MaxPopups
    /\ \E skipImmediateFetch \in BOOLEAN :
          LET c  == page.created + 1
              pg == removeInlinePopup(page)
          IN  page' = [ pg EXCEPT !.created = c,
                                  !.popupShadowRoot = c,
                                  !.loading = @ \cup { [ c |-> c, skip |-> skipImmediateFetch ] } ]
    /\ UNCHANGED << storeVars, requestVars, settingsVars, lookupVars, workerVars >>

\* the callback of loadInlineSettings in createInlinePopup: it fills the
\* shadow root the module variable names, attaches its own container and
\* sends the first request; with no shadow root it throws before attaching
InlineLoadCallback ==
    /\ \E l \in page.loading :
          LET pg0 == [ page EXCEPT !.loading = @ \ { l } ]
              pg1 == [ pg0 EXCEPT !.built = @ \cup { page.popupShadowRoot },
                                  !.attached = @ \cup { l.c },
                                  !.inlinePopup = l.c ]
          IN  page' = IF page.popupShadowRoot = 0
                      THEN pg0
                      ELSE IF ~l.skip /\ page.sent < MaxRequests
                           THEN sendFetchExplanation(pg1, l.c)
                           ELSE pg1
    /\ UNCHANGED << storeVars, requestVars, settingsVars, lookupVars, workerVars >>

\* fetchExplanation after its await: the response of the service worker
InlineResponse ==
    /\ \E r \in page.inflight, kind \in { "result", "error" } :
          page' = [ showOutcome(page, r.n, kind) EXCEPT !.inflight = @ \ { r } ]
    /\ UNCHANGED << storeVars, requestVars, settingsVars, lookupVars, workerVars >>

\* click on the Retry button of an error drawn in the popup of shadow root c
InlineRetryClick ==
    /\ page.sent < MaxRequests
    /\ \E c \in page.attached :
          /\ page.shown[c].kind = "error"
          /\ page' = sendFetchExplanation(
                        [ page EXCEPT !.shown[c] = [ n |-> 0, kind |-> "loading" ] ], c)
    /\ UNCHANGED << storeVars, requestVars, settingsVars, lookupVars, workerVars >>

\* Escape, a click outside the popup, or its close button
InlineDismiss ==
    /\ page.inlinePopup # 0
    /\ page' = removeInlinePopup(page)
    /\ UNCHANGED << storeVars, requestVars, settingsVars, lookupVars, workerVars >>

InlinePageNext ==
    \/ CreateInlinePopup
    \/ InlineLoadCallback
    \/ InlineResponse
    \/ InlineRetryClick
    \/ InlineDismiss

InlinePageSpec == RequestInit /\ [][InlinePageNext]_vars

(***************************************************************************)
(* background.js: the texts kept per tab.  SELECTED_TEXT stores, the       *)
(* GET_SELECTED_TEXT handler hands out and deletes, the interval callback  *)
(* removes what is older than five minutes.                                *)
(***************************************************************************)
Tabs         == { 1, 2 }
NoTab        == 0
SelectedTexts == { "alpha", "beta" }
FIVE_MINUTES == 5

\* a handler that leaves the entry in the map
keepEntry(storage, tabId) ==
    storage

\* textStorage.delete(tabId)
deleteEntry(storage, tabId) ==
    [ t \in DOMAIN storage \ { tabId } |-> storage[t] ]

\* onMessage, type SELECTED_TEXT, sent from tab tabId (NoTab: no sender.tab)
OnSelectedText ==
    /\ texts.stores < MaxStores
    /\ \E tabId \in Tabs \cup { NoTab }, text \in SelectedTexts :
          texts' =
            IF tabId = NoTab
            THEN [ texts EXCEPT !.stores = @ + 1,
                      !.answer = << [ type |-> "SELECTED_TEXT", tab |-> tabId,
                                      success |-> FALSE, error |-> "No tab ID" ] >> ]
            ELSE [ texts EXCEPT !.stores = @ + 1,
                      !.textStorage =
                          [ t \in DOMAIN texts.textStorage \cup { tabId } |->
                              IF t = tabId
                              THEN [ text |-> text, timestamp |-> texts.now,
                                     n |-> texts.stores + 1, from |-> tabId ]
                              ELSE texts.textStorage[t] ],
                      !.answer = << [ type |-> "SELECTED_TEXT", tab |-> tabId,
                                      success |-> TRUE ] >> ]
    /\ UNCHANGED << storeVars, requestVars, settingsVars, lookupVars, pageVars, proxy >>

\* onMessage, type GET_SELECTED_TEXT: the callback of chrome.tabs.query, for
\* the active tab it is handed (NoTab: none)
OnGetSelectedText ==
    /\ \E activeTabId \in Tabs \cup { NoTab } :
          texts' =
            IF activeTabId = NoTab
            THEN [ texts EXCEPT !.answer =
                      << [ type |-> "GET_SELECTED_TEXT", tab |-> activeTabId,
                           success |-> FALSE, error |-> "No active tab" ] >> ]
            ELSE IF activeTabId \in DOMAIN texts.textStorage
            THEN LET stored == texts.textStorage[activeTabId]
                 IN  [ texts EXCEPT
                         !.answer = << [ type |-> "GET_SELECTED_TEXT", tab |-> activeTabId,
                                         success |-> TRUE, text |-> stored.text,
                                         timestamp |-> stored.timestamp ] >>,
                         !.returned = Append(@, [ n |-> stored.n, from |-> stored.from,
                                                  active |-> activeTabId ]),
                         !.textStorage = deleteEntry(texts.textStorage, activeTabId) ]
            ELSE [ texts EXCEPT !.answer =
                      << [ type |-> "GET_SELECTED_TEXT", tab |-> activeTabId,
                           success |-> FALSE, error |-> "No text stored" ] >> ]
    /\ UNCHANGED << storeVars, requestVars, settingsVars, lookupVars, pageVars, proxy >>

\* the callback of setInterval(..., 60000)
CleanupInterval ==
    /\ texts' = [ texts EXCEPT !.textStorage =
                    [ t \in { u \in DOMAIN texts.textStorage :
                                ~(texts.now - texts.textStorage[u].timestamp > FIVE_MINUTES) }
                        |-> texts.textStorage[t] ] ]
    /\ UNCHANGED << storeVars, requestVars, settingsVars, lookupVars, pageVars, proxy >>

\* a minute passes
MinutePasses ==
    /\ texts.now < MaxMinutes
    /\ texts' = [ texts EXCEPT !.now = @ + 1 ]
    /\ UNCHANGED << storeVars, requestVars, settingsVars, lookupVars, pageVars, proxy >>

TextStoreNext ==
    \/ OnSelectedText
    \/ OnGetSelectedText
    \/ CleanupInterval
    \/ MinutePasses

TextStoreSpec == RequestInit /\ [][TextStoreNext]_vars

(***************************************************************************)
(* background.js, the variant that calls the backend proxy:                *)
(* fetchExplanationWithResilience(text, tone, language).  mainCalls counts *)
(* the requests handed to fetch for the main API, outcomes lists how they  *)
(* settled.                                                                *)
(***************************************************************************)
ProxyMaxRetries == 2

\* how a fetch of the main API may settle
ProxyOutcomes ==
    { [ kind |-> "ok", result |-> "An explanation" ],
      [ kind |-> "ok", result |-> "" ],
      [ kind |-> "reject", message |-> "Failed to fetch" ],
      [ kind |-> "reject", message |-> "Request timeout" ] }
    \cup { [ kind |-> "http", status |-> st, message |-> m ] :
              st \in { 400, 401, 429, 500 }, m \in { "", "Invalid request" } }

\* errorData.error || `HTTP ${response.status}`
ProxyErrorMsg(o) ==
    IF o.message # "" THEN o.message
    ELSE CASE o.status = 400 -> "HTTP 400"
           [] o.status = 401 -> "HTTP 401"
           [] o.status = 429 -> "HTTP 429"
           [] OTHER          -> "HTTP 500"

\* the catch block of the loop, for the message of the error caught
ProxyCatch(message) ==
    LET isNetworkError == \/ Includes(message, "timeout")
                          \/ Includes(message, "network")
                          \/ Includes(message, "fetch")
        p == [ proxy EXCEPT !.lastError = << message >> ]
    IN  IF isNetworkError /\ proxy.attempt < ProxyMaxRetries
        THEN [ p EXCEPT !.pc = "sleeping",
                        !.delay = RETRY_DELAY_MS * Pow2(proxy.attempt) ]
        ELSE IF proxy.attempt >= ProxyMaxRetries
        THEN [ p EXCEPT !.pc = "mock" ]
        ELSE [ p EXCEPT !.pc = "calling", !.attempt = @ + 1, !.mainCalls = @ + 1 ]

\* the message handler calls fetchExplanationWithResilience: first pass
ProxyStart ==
    /\ proxy.pc \in { "idle", "done" }
    /\ proxy' = [ ProxyInit EXCEPT !.pc = "calling", !.mainCalls = 1 ]
    /\ UNCHANGED << storeVars, requestVars, settingsVars, lookupVars, pageVars, texts >>

\* the fetch of the main API settles: the rest of the try block, or the catch
ProxyMainSettles ==
    /\ proxy.pc = "calling"
    /\ \E o \in ProxyOutcomes :
          LET seen == [ proxy EXCEPT !.outcomes = Append(@, o) ]
              next ==
                IF o.kind = "ok"
                THEN IF o.result # ""
                     THEN [ proxy EXCEPT !.pc = "done",
                               !.result = << [ success |-> TRUE, result |-> o.result ] >> ]
                     ELSE ProxyCatch("Empty response from server")
                ELSE IF o.kind = "http"
                THEN IF (o.status >= 500 \/ o.status = 429)
                        /\ proxy.attempt < ProxyMaxRetries
                     THEN [ proxy EXCEPT !.pc = "sleeping",
                               !.lastError = << ProxyErrorMsg(o) >>,
                               !.delay = RETRY_DELAY_MS * Pow2(proxy.attempt) ]
                     ELSE ProxyCatch(ProxyErrorMsg(o))
                ELSE ProxyCatch(o.message)
          IN  proxy' = [ next EXCEPT !.outcomes = seen.outcomes ]
    /\ UNCHANGED << storeVars, requestVars, settingsVars, lookupVars, pageVars, texts >>

\* the backoff timer fires: `continue`
ProxySleepDone ==
    /\ proxy.pc = "sleeping"
    /\ proxy' = [ proxy EXCEPT !.pc = "calling", !.attempt = @ + 1, !.delay = 0,
                               !.mainCalls = @ + 1 ]
    /\ UNCHANGED << storeVars, requestVars, settingsVars, lookupVars, pageVars, texts >>

\* after the loop: the fetch of the mock API settles
ProxyMockSettles ==
    /\ proxy.pc = "mock"
    /\ \E ok \in BOOLEAN :
          proxy' = [ proxy EXCEPT !.pc = "done",
                       !.result = IF ok
                                  THEN << [ success |-> TRUE, result |-> "A mock explanation",
                                            isMock |-> TRUE ] >>
                                  ELSE << [ success |-> FALSE,
                                            error |-> proxy.lastError[1] ] >> ]
    /\ UNCHANGED << storeVars, requestVars, settingsVars, lookupVars, pageVars, texts >>

ProxyNext ==
    \/ ProxyStart
    \/ ProxyMainSettles
    \/ ProxySleepDone
    \/ ProxyMockSettles

ProxySpec == RequestInit /\ [][ProxyNext]_vars

\* init(), for the outcomes of the two store reads of loadSettings: with a
\* key for the provider loaded it goes on to checkForSelectedText, which asks
\* the service worker for the selected text
PopupInitRun ==
    /\ ~popup.loaded
    /\ popupFetch = "idle"
    /\ nOps < MaxOps
    /\ \E syncReadOk \in BOOLEAN, localReadOk \in BOOLEAN :
          LET p == loadSettings(popup, syncStore, localStore, syncReadOk, localReadOk)
              hasKey == KeyOf(p.settings.apiKeys, p.settings.provider) # ""
          IN  /\ popup' = [ p EXCEPT !.loaded = TRUE,
                                     !.screen = IF hasKey THEN "result" ELSE "settings" ]
              /\ popupFetch' = IF hasKey THEN "checking" ELSE "idle"
    /\ nOps' = nOps + 1
    /\ UNCHANGED << storeVars, lookupVars, pageVars, workerVars, inline, saveResult, req, httpLog,
                    lastOutcome, thrown, response, popupView, other >>

\* popup.js fetchExplanation, called by checkForSelectedText with the text the
\* service worker held and by the Retry button of the error state: the message
\* carries settings.tone and settings.language
PopupFetchExplanation ==
    /\ popup.loaded
    /\ \/ popupFetch = "checking"
       \/ popup.screen = "result" /\ popupView # <<>> /\ popupView[1].state = "error"
    /\ OnFetchExplanation
    /\ req'.tone = popup.settings.tone
    /\ req'.language = popup.settings.language

\* what fetchExplanation may throw before a response exists: a text that
\* validateText turns down, a sendMessage that rejects
ThrownMessages ==
    { "Text is too long (max 2000 characters)",
      "Could not establish connection. Receiving end does not exist." }

\* popup.js fetchExplanation ending in its catch block with an error that was
\* thrown, which carries no isNoKeyError
PopupFetchThrows ==
    /\ popup.loaded
    /\ \/ popupFetch = "checking"
       \/ popup.screen = "result" /\ popupView # <<>> /\ popupView[1].state = "error"
    /\ req.pc \in { "idle", "done" }
    /\ \E m \in ThrownMessages : popupView' = << showErrorState(m, <<>>) >>
    /\ popupFetch' = "idle"
    /\ UNCHANGED << storeVars, settingsVars, lookupVars, pageVars, workerVars, other, req, httpLog,
                    lastOutcome, thrown, response >>

\* the toolbar popup from init() on: its requests and its settings screen
PopupSessionNext ==
    \/ PopupInitRun
    \/ PopupOpenSettings
    \/ PopupProviderSwitch
    \/ PopupBack
    \/ PopupFetchExplanation
    \/ PopupFetchThrows
    \/ StoredCallback
    \/ FetchSettles
    \/ SleepDone
    \/ PopupOnResponse

PopupSessionSpec == Init /\ [][PopupSessionNext]_vars

\* the service worker serving the requests of a popup that may be closed
PopupRequestNext ==
    \/ OnFetchExplanation
    \/ StoredCallback
    \/ FetchSettles
    \/ SleepDone
    \/ PopupOnResponse
    \/ PopupUnload

PopupRequestSpec == RequestInit /\ [][PopupRequestNext]_vars

\* the service worker serving two requests at a time
OverlapNext ==
    \/ OnFetchExplanation
    \/ StoredCallback
    \/ FetchSettles
    \/ SleepDone
    \/ OtherFetchExplanation
    \/ OtherStoredCallback
    \/ OtherFetchSettles
    \/ OtherSleepDone

OverlapSpec == RequestInit /\ [][OverlapNext]_vars

SettingsNext ==
    \/ PopupLoad
    \/ PopupOpenSettings
    \/ PopupTypeKey
    \/ PopupProviderSwitch
    \/ PopupBack
    \/ PopupSubmit
    \/ PopupSavedTimer
    \/ PopupClose
    \/ InlineCreate
    \/ InlineProviderChange
    \/ InlineKeyInput
    \/ InlineTestClick
    \/ InlineTestSettled
    \/ InlineSave
    \/ InlineClose
    \/ \E newSettings \in SaveInputs : PopupSaveCall(newSettings)
    \/ \E nextSettings \in SaveInputs : InlineSaveCall(nextSettings)

SettingsSpec == Init /\ [][SettingsNext]_vars


(***************************************************************************)
(* Properties of the settings store.                                       *)
(***************************************************************************)
\* every credential value a session may hold: stored before it, or typed
Credentials ==
    ({ SavedKeys[k] : k \in DOMAIN SavedKeys } \cup { Trim(v) : v \in KeyValues }
        \cup { "sk-typed-A" }) \ { "" }

\* the credentials of a payload handed to a store
PayloadKeys(w) ==
    { ApiKeysOf(w)[k] : k \in DOMAIN ApiKeysOf(w) } \ { "" }

\* C1: no payload handed to chrome.storage.sync.set, and so nothing the
\* cross-device store holds, has an apiKeys property or a credential value;
\* it has the language and the tone and nothing else, on the fallback
\* branches of a save as on the regular one.
SyncHoldsNoCredential ==
    /\ \A i \in DOMAIN syncWrites :
          /\ DOMAIN syncWrites[i] = { "language", "tone" }
          /\ \A k \in DOMAIN syncWrites[i] : syncWrites[i][k] \notin Credentials
    /\ DOMAIN syncStore \subseteq { "language", "tone" }
    /\ \A k \in DOMAIN syncStore : syncStore[k] \notin Credentials

\* a save whose cross-device write failed went on to the device-local store
\* with a credential in its payload
FallbackSaveWithCredential ==
    /\ saveResult = << [ success |-> TRUE, fallback |-> TRUE ] >>
    /\ syncWrites # <<>>
    /\ \E i \in DOMAIN localWrites : PayloadKeys(localWrites[i]) # {}


(***************************************************************************)
(* Properties of the request path.                                         *)
(***************************************************************************)
\* the way the last fetch of the request in hand settled
LastKind   == IF lastOutcome = <<>> THEN "none" ELSE lastOutcome[1].kind
LastStatus == IF lastOutcome = <<>> THEN 0 ELSE lastOutcome[1].status

\* the request has ended and answered with a failure
EndedInFailure ==
    req.pc = "done" /\ response # <<>> /\ ~response[1].success

\* C2: an attempt that fails with an HTTP status in the 4xx range other than
\* 429 ends the request as a failure, whatever message the provider attached:
\* no attempt follows it.
FatalStatusEndsRequest ==
    (LastKind = "http" /\ LastStatus \in 400..499 /\ LastStatus # 429)
        => (EndedInFailure /\ Len(httpLog) = req.attempt + 1)

\* C3: an attempt that fails with an HTTP status of 500 or more, or with 429,
\* while the retry budget is not used up, does not end the request: a further
\* attempt follows, whatever message the provider attached.
RetryableStatusRetried ==
    (LastKind = "http" /\ (LastStatus >= 500 \/ LastStatus = 429)
        /\ Len(httpLog) <= RETRY_ATTEMPTS)
        => req.pc \in { "sleeping", "fetching" }

\* C4: an attempt aborted by the TIMEOUT_MS timer counts as retryable: while
\* the retry budget is not used up the request backs off and tries again.
TimeoutRetried ==
    (LastKind = "timeout" /\ Len(httpLog) <= RETRY_ATTEMPTS)
        => req.pc \in { "sleeping", "fetching" }


\* what is left of a request: the calls its budget still allows, and the
\* steps between them
Remaining ==
    3 * (RETRY_ATTEMPTS + 1 - Len(httpLog))
      + (CASE req.pc = "reading"  -> 3
           [] req.pc = "fetching" -> 2
           [] req.pc = "sleeping" -> 1
           [] OTHER               -> 0)

\* a step of the request in hand
RequestStep == StoredCallback \/ FetchSettles \/ SleepDone

\* C5: one request makes at most RETRY_ATTEMPTS + 1 dispatcher calls and then
\* ends: every step of it is possible until it has ended and brings it nearer
\* to its end.  When every attempt failed as a network failure it has made
\* exactly RETRY_ATTEMPTS + 1 calls and answers { success: false } with the
\* error of the last attempt.
BoundedAttempts ==
    /\ [](/\ Len(httpLog) <= RETRY_ATTEMPTS + 1
          /\ req.pc \in { "reading", "fetching", "sleeping" } => ENABLED RequestStep
          /\ (req.pc = "done" /\ lastOutcome # <<>> /\ lastOutcome[1].onlyNetwork)
                => /\ Len(httpLog) = RETRY_ATTEMPTS + 1
                   /\ response = << [ success |-> FALSE, error |-> thrown[1].message ] >>)
    /\ [][RequestStep => Remaining' < Remaining]_vars

\* a request has ended after network failures only
ExhaustedByNetworkFailures ==
    /\ req.pc = "done"
    /\ lastOutcome # <<>> /\ lastOutcome[1].onlyNetwork
    /\ Len(httpLog) = RETRY_ATTEMPTS + 1


StartsWith(s, t) == Len(s) >= Len(t) /\ SubSeq(s, 1, Len(t)) = t
EndsWith(s, t)   == Len(s) >= Len(t) /\ SubSeq(s, Len(s) - Len(t) + 1, Len(s)) = t

\* the credentials an HTTP request carries, under whichever scheme
CredentialsSent(h) ==
    (IF "Authorization" \in DOMAIN h.headers
     THEN { SubSeq(h.headers.Authorization, Len("Bearer ") + 1, Len(h.headers.Authorization)) }
     ELSE {})
    \cup (IF "xApiKey" \in DOMAIN h.headers THEN { h.headers.xApiKey } ELSE {})
    \cup (IF Includes(h.url, "?key=")
          THEN { SubSeq(h.url, IndexOf(h.url, "?key=") + Len("?key="), Len(h.url)) }
          ELSE {})

\* C6: every attempt of a request goes to the endpoint of the provider, and
\* carries the credential, that the local store held when the request read
\* it; never another provider's, whatever is saved while it is in flight.
AttemptsUseProviderReadAtStart ==
    \A i \in DOMAIN httpLog :
        /\ StartsWith(httpLog[i].url, PROVIDER_CONFIGS[StoredProvider(req.stored)].url)
        /\ CredentialsSent(httpLog[i]) = { StoredKey(req.stored) }

\* a request on its second or third attempt while the store names another
\* provider than the one it read
RetriedAfterProviderChanged ==
    /\ Len(httpLog) >= 2
    /\ StoredProvider(localStore) # StoredProvider(req.stored)

\* C7: the dispatchers send the credential by the scheme of the provider's
\* family and by no other: openai and groq as a bearer Authorization header,
\* anthropic as an x-api-key header beside an anthropic-version header,
\* gemini as the key parameter of the URL's query.
CredentialByFamilyScheme ==
    \A i \in DOMAIN httpLog :
        LET h == httpLog[i]
            names == DOMAIN h.headers
        IN  CASE req.providerId \in { "openai", "groq" } ->
                   /\ names \cap { "Authorization", "xApiKey" } = { "Authorization" }
                   /\ h.headers.Authorization = "Bearer " \o req.apiKey
                   /\ ~Includes(h.url, req.apiKey)
              [] req.providerId = "anthropic" ->
                   /\ names \cap { "Authorization", "xApiKey" } = { "xApiKey" }
                   /\ h.headers.xApiKey = req.apiKey
                   /\ "anthropicVersion" \in names
                   /\ ~Includes(h.url, req.apiKey)
              [] req.providerId = "gemini" ->
                   /\ names \cap { "Authorization", "xApiKey" } = {}
                   /\ EndsWith(h.url, "?key=" \o req.apiKey)
              [] OTHER -> FALSE

\* requests have gone out to a provider of the Anthropic family
AnthropicRequestSent ==
    req.providerId = "anthropic" /\ httpLog # <<>>

\* C8: a response with a success status from which no text can be extracted
\* makes the dispatcher fail with the empty-response error, and the request
\* ends as a failure with that attempt: it is not answered as a success and
\* not tried again.
EmptyResponseEndsRequest ==
    LastKind = "empty"
        => /\ thrown = << EmptyResponseError >>
           /\ EndedInFailure
           /\ response[1].error = "Empty response from provider"
           /\ Len(httpLog) = req.attempt + 1

\* a request has ended on a response that carried no text
EndedOnEmptyResponse ==
    LastKind = "empty" /\ req.pc = "done"

\* C9: the error a dispatcher throws for a response without a success status
\* carries the numeric status code of the response, beside the provider's
\* message.
HttpErrorCarriesStatus ==
    LastKind = "http"
        => /\ thrown # <<>>
           /\ "status" \in DOMAIN thrown[1]
           /\ thrown[1].status = LastStatus

\* the request failed for its credential: the provider answered 401
AuthenticationFailure ==
    LastKind = "http" /\ LastStatus = 401

\* C10: the answer to a request is { success: true, text } or
\* { success: false, error, isCredentialError }, the flag being true exactly
\* when the failure is an authentication failure.
TerminalResultShape ==
    response # <<>>
        => IF response[1].success
           THEN DOMAIN response[1] = { "success", "text" }
           ELSE /\ DOMAIN response[1] = { "success", "error", "isCredentialError" }
                /\ response[1].isCredentialError = AuthenticationFailure


(***************************************************************************)
(* Properties of the settings forms.                                       *)
(***************************************************************************)
\* the toolbar popup shows its settings screen for the selected provider
PopupEditing(x) ==
    popup.loaded /\ popup.screen = "settings" /\ popup.radio = x

\* the key field of the toolbar popup shows what was typed for the selected
\* provider in the session, whatever was switched and edited since
PopupShowsTyped ==
    \A x \in ProviderIds :
        (PopupEditing(x) /\ x \in DOMAIN popup.typed) => popup.keyInput = popup.typed[x]

\* the key field of the inline popup does so
InlineShowsTyped ==
    \A x \in ProviderIds :
        (inline.open /\ inline.activeProvider = x /\ x \in DOMAIN inline.typed)
            => inline.keyInput = inline.typed[x]

SaveStep == PopupSubmit \/ InlineSave

\* the providers whose key the user typed in the session under way
EditedInSession == DOMAIN popup.typed \cup DOMAIN inline.typed

\* C12: a save that succeeds leaves in the apiKeys map of the device-local
\* store the credential of every provider whose key was not edited in the
\* session, whatever loads (failed ones too), switches and edits came before.
UneditedKeysSurviveSave ==
    [][ (SaveStep /\ saveResult'[1].success)
          => \A x \in ProviderIds \ EditedInSession :
                KeyOf(ApiKeysOf(localStore'), x) = KeyOf(ApiKeysOf(localStore), x) ]_vars


\* the settings objects with a language, tone or provider outside its
\* enumeration
InvalidInputs ==
    { n \in SaveInputs : \/ n.language \notin { "en", "ru" }
                         \/ n.tone \notin { "simple", "kid", "expert" }
                         \/ n.provider \notin ProviderIds }

\* C13: a save of a settings object whose language, tone or provider is
\* outside its enumeration returns a failure and hands nothing to either
\* store, which stay as they were.
InvalidSaveWritesNothing ==
    [][ \A n \in InvalidInputs :
          (PopupSaveCall(n) \/ InlineSaveCall(n))
              => /\ ~saveResult'[1].success
                 /\ syncWrites' = <<>> /\ localWrites' = <<>>
                 /\ UNCHANGED << syncStore, localStore >> ]_vars


\* the device-local store holds what the form being submitted asks to save
LocalHoldsRequest(f) ==
    /\ { "language", "tone", "provider", "apiKeys" } \subseteq DOMAIN localStore'
    /\ localStore'.language = f[1]
    /\ localStore'.tone = f[2]
    /\ localStore'.provider = popup.radio
    /\ localStore'.apiKeys =
          Merge(popup.settings.apiKeys,
                Merge(popup.draftApiKeys, [ k \in { popup.radio } |-> Trim(popup.keyInput) ]))

LoadFallsBackToLocal ==
    [][ PopupLoadWith(FALSE, TRUE)
          => popup'.settings =
                [ language |-> OrElse(localStore, "language", "en"),
                  tone     |-> OrElse(localStore, "tone", "simple"),
                  provider |-> OrElse(localStore, "provider", "openai"),
                  apiKeys  |-> ApiKeysOf(localStore) ] ]_vars


\* the provider the device-local store names as the active one
SavedProvider == OrElse(localStore, "provider", "openai")

\* C16: the back button clears the draft keys and restores what is persisted:
\* the provider selected is the saved active provider and the key field shows
\* its saved credential, whatever was switched and typed in the session.
\* Stated of the sessions whose load had read the stored keys.
BackRestoresSaved ==
    [][ (PopupBack /\ popup.settings.apiKeys = ApiKeysOf(localStore))
          => /\ popup'.draftApiKeys = EmptyObject
             /\ popup'.radio = SavedProvider
             /\ popup'.settings.provider = SavedProvider
             /\ popup'.keyInput = KeyOf(ApiKeysOf(localStore), SavedProvider) ]_vars


\* C17: a credential test of a value that is empty once trimmed sets the
\* status of the provider to not-set and sends no validation request, nor any
\* other request.
EmptyTestSendsNothing ==
    [][ (InlineTestClick /\ Trim(inline.keyInput) = "")
          => /\ inline'.keyStatusByProvider[inline.activeProvider] = "not-set"
             /\ inline'.testing = <<>>
             /\ httpLog' = httpLog ]_vars

\* the test button was clicked on a field holding spaces at most
TestedEmptyValue ==
    /\ inline.open /\ inline.last = "test"
    /\ Trim(inline.keyInput) = ""
    /\ inline.keyStatusByProvider[inline.activeProvider] = "not-set"


\* a step of a credential test: the click, or the answer to it
TestStep == InlineTestClick \/ InlineTestSettled

\* C18: a credential test, however it ends, changes a validation status and
\* nothing else: not the saved settings held in memory, not a draft, not the
\* key field or the provider selected, not either store.
TestChangesStatusOnly ==
    [][ TestStep
          => /\ inline'.currentSettings = inline.currentSettings
             /\ inline'.draftApiKeys = inline.draftApiKeys
             /\ inline'.keyInput = inline.keyInput
             /\ inline'.activeProvider = inline.activeProvider
             /\ popup' = popup
             /\ UNCHANGED << syncStore, localStore >> ]_vars

\* a test of a typed key has been answered
TestAnswered ==
    /\ inline.open /\ inline.last = "tested"
    /\ inline.keyStatusByProvider[inline.activeProvider] \in { "validated", "invalid" }
    /\ inline.activeProvider \in DOMAIN inline.typed
    /\ KeyOf(inline.draftApiKeys, inline.activeProvider)
          # KeyOf(inline.currentSettings.apiKeys, inline.activeProvider)

(***************************************************************************)
(* Properties of a request whose popup goes away.                          *)
(***************************************************************************)
\* C19: tearing down the popup while its request is in flight aborts that
\* request: from then on no further HTTP request is handed to fetch for it
\* and nothing is rendered from it.
TeardownAbortsRequest ==
    [][ (popupFetch = "torndown" /\ popupFetch' = "torndown")
            => (httpLog' = httpLog /\ popupView' = popupView) ]_vars

Verbatim(template, text) ==
    LET i == IndexOf(template, "{text}")
    IN  SubSeq(template, 1, i - 1) \o text \o SubSeq(template, i + 6, Len(template))

PromptCall ==
    call # <<>> /\ call[1].fn \in { "buildPrompt", "getPrompt" }

\* C21: for every tone and language of the enumerations and every text, the
\* prompt builder returns the pair's template with its {text} placeholder
\* replaced by the text verbatim, whatever characters the text holds.
PromptHoldsTextVerbatim ==
    (PromptCall /\ call[1].tone \in validTones /\ call[1].language \in validLanguages)
        => /\ ~call[1].threw
           /\ call[1].value
                = Verbatim(PROMPTS[call[1].tone][call[1].language], call[1].text)

\* C22: the prompt builder never throws on a tone or language outside its
\* enumeration: it yields what it yields for the simple tone in place of an
\* unrecognized tone and for English in place of an unrecognized language.
PromptFallsBack ==
    PromptCall
        => /\ ~call[1].threw
           /\ call[1].value
                = buildPrompt(call[1].text,
                     IF call[1].tone \in validTones THEN call[1].tone ELSE "simple",
                     IF call[1].language \in validLanguages THEN call[1].language ELSE "en")

\* C23: looking up or dispatching with a provider id outside the four known
\* ones yields exactly what it yields for openai: the OpenAI entry, and a
\* request to the OpenAI endpoint with the OpenAI model and a Bearer key.
UnknownProviderIsOpenAI ==
    (call # <<>> /\ call[1].fn \in { "getProvider", "callProvider" }
                /\ call[1].providerId \notin ProviderIds)
        => IF call[1].fn = "getProvider"
           THEN call[1].value = PROVIDERS.openai
           ELSE /\ call[1].value.url = PROVIDER_CONFIGS.openai.url
                /\ call[1].value.body.model = PROVIDER_CONFIGS.openai.model
                /\ call[1].value.headers.Authorization = "Bearer " \o call[1].apiKey

(***************************************************************************)
(* Properties of the credential status of the inline settings form.       *)
(***************************************************************************)
\* the value the form holds for provider x: the trimmed key field for the
\* provider shown, the draft for any other
EditValue(i, x) ==
    IF i.activeProvider = x THEN Trim(i.keyInput) ELSE KeyOf(i.draftApiKeys, x)

InlineValidated(i, x) ==
    i.open /\ x \in DOMAIN i.keyStatusByProvider /\ i.keyStatusByProvider[x] = "validated"

\* C24: a provider's status becomes Validated only when a test completes that
\* was issued for that provider with the value the form now holds for it,
\* and while it stays Validated that value is not changed, whatever edits and
\* provider switches happened while the test was in flight.
ValidatedMeansTested ==
    [][ \A x \in ProviderIds :
          /\ (InlineValidated(inline', x) /\ ~InlineValidated(inline, x))
                => /\ inline.testing # <<>>
                   /\ inline.testing[1].provider = x
                   /\ inline.testing[1].apiKey = EditValue(inline', x)
          /\ (InlineValidated(inline', x) /\ InlineValidated(inline, x))
                => EditValue(inline', x) = EditValue(inline, x) ]_vars

\* the status of provider x changes in this step of the open form
StatusChanges(x) ==
    /\ inline.open /\ inline'.open
    /\ x \in DOMAIN inline.keyStatusByProvider
    /\ inline'.keyStatusByProvider[x] # inline.keyStatusByProvider[x]

\* C25: a provider's status changes only along the edges of its state
\* machine: to Saved (NotSet for an empty value) on an edit of that
\* provider's value, from Saved to Testing when a test of a non-empty value
\* starts, and from Testing to Validated or Invalid when that test completes.
StatusFollowsStateMachine ==
    [][ \A x \in ProviderIds :
          StatusChanges(x) =>
            LET s == inline.keyStatusByProvider[x]
                t == inline'.keyStatusByProvider[x]
            IN  \/ /\ t \in { "saved", "not-set" }
                   /\ inline'.last = "input"
                   /\ inline.activeProvider = x
                   /\ t = EditedStatus(EditValue(inline', x))
                \/ /\ t = "testing"
                   /\ s = "saved"
                   /\ inline.testing = <<>> /\ inline'.testing # <<>>
                   /\ inline'.testing[1].provider = x
                   /\ inline'.testing[1].apiKey # ""
                \/ /\ t \in { "validated", "invalid" }
                   /\ s = "testing"
                   /\ inline.testing # <<>> /\ inline'.testing = <<>>
                   /\ inline.testing[1].provider = x ]_vars

(***************************************************************************)
(* Properties of the saves of the two settings forms.                      *)
(***************************************************************************)
\* C26: a save of the inline popup whose cross-device write fails and whose
\* device-local write succeeds reports success marked as a fallback, and the
\* device-local store then holds the language and tone of the request as
\* well as its provider and apiKeys.
InlineFallbackSaveCompletes ==
    [][ \A f \in FormChoices :
          InlineSaveWith(f, FALSE, TRUE)
              => /\ saveResult' = << [ success |-> TRUE, fallback |-> TRUE ] >>
                 /\ { "language", "tone", "provider", "apiKeys" } \subseteq DOMAIN localStore'
                 /\ localStore'.language = f[1]
                 /\ localStore'.tone = f[2]
                 /\ localStore'.provider = inline.activeProvider
                 /\ localStore'.apiKeys = inlineNextSettings(inline, f[1], f[2]).apiKeys ]_vars

\* the request a submit of the toolbar popup hands to saveSettings
PopupRequest(f) ==
    [ language |-> f[1], tone |-> f[2], provider |-> popup.radio,
      apiKeys  |-> Merge(popup.settings.apiKeys,
                         Merge(popup.draftApiKeys,
                               [ k \in { popup.radio } |-> Trim(popup.keyInput) ])) ]

\* the value the toolbar popup holds for provider x: the trimmed key field for
\* the selected provider, else the draft, else the saved key
PopupEditValue(p, x) ==
    IF p.radio = x THEN Trim(p.keyInput) ELSE updateApiKeyField(p, x)

BackoffBeforeEveryRetry ==
    [][ /\ (req'.pc = "sleeping" /\ req.pc # "sleeping")
              => /\ req.pc = "fetching"
                 /\ thrown' # <<>> /\ isRetryable(thrown'[1])
                 /\ Len(httpLog) <= RETRY_ATTEMPTS
                 /\ req'.delay = RETRY_DELAY_MS * 2^(Len(httpLog) - 1)
        /\ (req.pc = "sleeping" /\ req' # req)
              => /\ req'.pc = "fetching"
                 /\ Len(httpLog') = Len(httpLog) + 1
        /\ (Len(httpLog') = Len(httpLog) + 1 /\ Len(httpLog) >= 1)
              => /\ req.pc = "sleeping"
                 /\ req.delay = RETRY_DELAY_MS * 2^(Len(httpLog) - 1)
        /\ (req'.pc = "done" /\ req.pc # "done")
              => req'.delay = 0 ]_vars

\* the second backoff delay of a request is running
SecondBackoffRunning ==
    /\ req.pc = "sleeping"
    /\ Len(httpLog) = 2
    /\ req.delay = 2 * RETRY_DELAY_MS

\* C29: a backoff delay is cancellable: when the popup that sent the request
\* has aborted it and the request is waiting in a backoff delay, no further
\* HTTP request is handed to fetch for it.
BackoffIsCancellable ==
    [][ (req.pc = "sleeping" /\ popupFetch = "torndown")
            => httpLog' = httpLog ]_vars

(***************************************************************************)
(* Properties of two requests served at the same time.                     *)
(***************************************************************************)
\* a step of the second request
OtherStep == OtherStoredCallback \/ OtherFetchSettles \/ OtherSleepDone

\* C30: two overlapping requests share no mutable state.  A step of one
\* leaves the other's attempt counter, pending delay, requests and result as
\* they are and can be taken whatever the other is doing; each request counts
\* its own attempts (one less than the requests it has handed to fetch) and
\* backs off by its own count, and its result is set once, by a step of its
\* own.
RequestsAreIndependent ==
    /\ [](/\ (req.pc \in { "fetching", "sleeping" }) => req.attempt = Len(httpLog) - 1
          /\ (other.pc \in { "fetching", "sleeping" }) => other.attempt = other.sent - 1
          /\ (req.pc = "sleeping")
                => req.delay = RETRY_DELAY_MS * 2^(Len(httpLog) - 1)
          /\ (other.pc = "sleeping")
                => other.delay = RETRY_DELAY_MS * 2^(other.sent - 1)
          /\ Len(httpLog) <= RETRY_ATTEMPTS + 1
          /\ other.sent <= RETRY_ATTEMPTS + 1
          /\ (req.pc \in { "reading", "fetching", "sleeping" }) => ENABLED RequestStep
          /\ (other.pc \in { "reading", "fetching", "sleeping" }) => ENABLED OtherStep)
    /\ [][ /\ (OtherFetchExplanation \/ OtherStep)
                => UNCHANGED << req, httpLog, lastOutcome, thrown, response >>
           /\ (OnFetchExplanation \/ RequestStep) => other' = other
           /\ (other'.response # other.response)
                => (OtherStep /\ other.response = <<>> /\ other'.pc = "done")
           /\ (response' # response /\ response' # <<>>)
                => (RequestStep /\ response = <<>> /\ req'.pc = "done") ]_vars

\* the first request waits in its second backoff delay while the second
\* request is at its first attempt
RequestsOverlapAtDifferentAttempts ==
    /\ req.pc = "sleeping" /\ req.attempt = 1
    /\ other.pc = "fetching" /\ other.attempt = 0 /\ other.sent = 1

(***************************************************************************)
(* validateSettings                                                        *)
(***************************************************************************)
\* the fields of s that are present and hold no allowed identifier
DisallowedFields(s) ==
    { k \in DOMAIN s : \/ k = "language" /\ s[k] \notin validLanguages
                       \/ k = "tone"     /\ s[k] \notin validTones
                       \/ k = "provider" /\ s[k] \notin validProviders }

\* C31: validateSettings returns false whenever a field that is present holds
\* a value that is not exactly an allowed identifier (the empty string
\* included), and true when every field that is present is allowed; fields
\* that are absent are not looked at.
ValidateRejectsEveryDisallowedValue ==
    (call # <<>> /\ call[1].fn = "validateSettings")
       => (call[1].value = (DisallowedFields(call[1].s) = {}))

(***************************************************************************)
(* The inline popups of a page                                             *)
(***************************************************************************)
\* C32: what the open inline popup shows, an explanation or an error, is the
\* answer to the last request sent from that popup; the answer to an earlier
\* request, or to one sent from a popup since removed, is never drawn.
ShownBelongsToLatestRequest ==
    (page.inlinePopup # 0 /\ page.shown[page.inlinePopup].n # 0)
       => page.shown[page.inlinePopup].n = page.issued[page.inlinePopup]

\* C37: at most one inline popup container is attached to the document,
\* however createInlinePopup calls and the settings loads interleave.
AtMostOneContainerAttached ==
    Cardinality(page.attached) <= 1

(***************************************************************************)
(* The toolbar popup showing the outcome of a request                      *)
(***************************************************************************)
\* C33: the provider named with a displayed result is the provider that
\* served the request, the active provider the device-local store held when
\* the request was made, also after provider switches that were not saved.
BadgeNamesServingProvider ==
    (popupView # <<>> /\ popupView[1].state = "result")
       => popupView[1].badge
             = PROVIDER_META_NAME[IF req.providerId \in ProviderIds
                                  THEN req.providerId ELSE "openai"]

(***************************************************************************)
(* A request made while no credential is stored                            *)
(***************************************************************************)
\* what the handler read holds no credential for the active provider
ReadNoCredential ==
    /\ req.pc \notin { "idle", "reading" }
    /\ KeyOf(ApiKeysOf(req.stored), OrElse(req.stored, "provider", "openai")) = ""

\* C34: when no credential is stored for the active provider, the request is
\* answered with the failure 'No API key configured ...' at once: nothing is
\* handed to fetch, no attempt is counted and no backoff is started.
NoCredentialNoCall ==
    ReadNoCredential
       => /\ req.pc = "done"
          /\ httpLog = <<>>
          /\ req.attempt = 0 /\ req.delay = 0
          /\ response # <<>>
          /\ ~response[1].success
          /\ StartsWith(response[1].error, "No API key configured")

\* a request was answered while the store held no credential
AnsweredWithoutCredential ==
    ReadNoCredential /\ response # <<>> /\ popupView # <<>>

LeavingLoadingAbortsRequest ==
    (popupFetch # "awaiting") => (req.pc \notin { "reading", "fetching", "sleeping" })

(***************************************************************************)
(* The texts the service worker keeps per tab                              *)
(***************************************************************************)
\* the GET_SELECTED_TEXT message answered last found no text for tab t
ReportedNoText(t) ==
    /\ texts.answer # <<>>
    /\ texts.answer[1].type = "GET_SELECTED_TEXT"
    /\ texts.answer[1].tab = t
    /\ ~texts.answer[1].success
    /\ texts.answer[1].error = "No text stored"

\* C38: a text stored by SELECTED_TEXT for a tab is returned by
\* GET_SELECTED_TEXT only while that tab is the active tab, and at most once:
\* no stored text is handed out twice or to another tab, what was handed out
\* or is older than five minutes at a cleanup is in the map no longer, and a
\* GET_SELECTED_TEXT for a tab without an entry reports that no text is
\* stored.
StoredTextReturnedOnce ==
    /\ [](/\ \A i, j \in 1 .. Len(texts.returned) :
                texts.returned[i].n = texts.returned[j].n => i = j
          /\ \A i \in 1 .. Len(texts.returned) :
                /\ texts.returned[i].from = texts.returned[i].active
                /\ \A t \in DOMAIN texts.textStorage :
                      texts.textStorage[t].n # texts.returned[i].n
          /\ \A t \in DOMAIN texts.textStorage : texts.textStorage[t].from = t)
    /\ [][ /\ OnGetSelectedText
              => \A t \in Tabs :
                    (texts'.answer[1].tab = t)
                       => /\ texts'.answer[1].success = (t \in DOMAIN texts.textStorage)
                          /\ texts'.answer[1].success
                                => /\ texts'.answer[1].text = texts.textStorage[t].text
                                   /\ t \notin DOMAIN texts'.textStorage
                          /\ ~texts'.answer[1].success => ReportedNoText(t)'
           /\ CleanupInterval
              => \A t \in Tabs :
                    (t \in DOMAIN texts'.textStorage)
                       <=> /\ t \in DOMAIN texts.textStorage
                           /\ texts.now - texts.textStorage[t].timestamp <= FIVE_MINUTES ]_vars

\* a text was handed out to its tab, and the next GET_SELECTED_TEXT for that
\* tab found none
SecondGetFindsNoText ==
    /\ texts.returned # <<>>
    /\ ReportedNoText(texts.returned[Len(texts.returned)].active)

(***************************************************************************)
(* The retry loop of the backend-proxy variant                             *)
(***************************************************************************)
\* C39: in the backend-proxy variant a non-retryable HTTP error from the main
\* API, a 4xx other than 429, ends the retry loop at once: the call that got
\* it is the last call of the main API for that request.
FatalStatusEndsProxyLoop ==
    \A i \in 1 .. Len(proxy.outcomes) :
        (/\ proxy.outcomes[i].kind = "http"
         /\ proxy.outcomes[i].status >= 400 /\ proxy.outcomes[i].status < 500
         /\ proxy.outcomes[i].status # 429)
           => proxy.mainCalls = i

====
